---- MODULE Spec2Model ----
(***************************************************************************)
(* NetSuite -> Google Sheets automation (woobing).                         *)
(*                                                                         *)
(* State machine of the browser-driven export batch:                       *)
(*   src/netsuite_export.py  NetSuiteExporter (element resolver, login,    *)
(*                           export engine, close)                         *)
(*   src/main.py             process_reports (session controller)          *)
(*                                                                         *)
(* The browser page is the environment: what a selector finds, which URL   *)
(* a submission leads to, whether a download arrives and which operation   *)
(* raises are chosen nondeterministically at each step.                    *)
(***************************************************************************)
EXTENDS Integers, Sequences, FiniteSets, TLC

VARIABLES
    \* ---- element resolver, called on its own (SpecResolver) ----
    rpc,            \* "idle" | "ready" | "returned"
    selectors,      \* the candidate list handed to the resolver
    rres,           \* what the call did and returned
    \* ---- NetSuiteExporter fields ----
    playwright,     \* self.playwright: "none" | "started" | "stopped" | "stop_failed"
    browser,        \* self.browser:    "none" | "open" | "closed" | "close_failed"
    page,           \* self.page is set
    security_answer,\* self.security_answer: NoAnswer or a string
    url,            \* self.page.url, as the substrings the code tests
    files,          \* the files of download_dir, oldest creation time first
    \* ---- login() ----
    lpc,            \* position inside login()
    attempt,        \* index into answers in the challenge loop
    loginResult,    \* "none" | "true" | "false" | "raised"
    error_elements, \* per error selector, the texts of the elements it matches
                    \* on the page the submission led to, until they are scanned
    \* ---- export_report() ----
    epc,            \* position inside export_report / export_saved_search_results
    cand,           \* index into the export selector list being scanned
    export_clicked, \* local of export_report
    click_download, \* what the click of the standard path did to the download:
                    \* "none" | "early" (announced during the click call) |
                    \* "late" (announced after the click call returned)
    js_error,       \* the error text of strategy 2, inside its handler
    xls_url,        \* the address the script of strategy 2 sends the page to,
                    \* while its download is awaited
    exportResult,   \* the value the export call returned, until it is used
    \* ---- process_reports() ----
    pc,             \* position inside process_reports
    reports,        \* input list
    manager,        \* ReportConfigManager: its `reports` list and what its last
                    \* call returned
    other_batch,    \* a batch running at the same time: the working directories of
                    \* the two processes and what the other one has saved
    sync_cell,      \* the last status written to the sync-status cell of the
                    \* report in progress
    idx,            \* loop index i (1-based)
    results,        \* list of ProcessResult
    batch,          \* "running" | "returned" | "raised"
    \* ---- observation (history) ----
    calls,          \* how often each operation was invoked
    filled,         \* indices of the answers the login call filled in, in order
    submitted,      \* indices of the answers the login call submitted, in order
    diags,          \* artifacts requested by the login/export call in progress
                    \* or just returned
    produced,       \* per target: a download was received and saved in its attempt
    strategies,     \* saved-search strategies the export call has entered, in order
    received,       \* suggested_filename of the download the export call received
    direct_clicks   \* direct export controls the export call clicked in strategy 1

resolverVars == <<rpc, selectors, rres>>
exporterVars == <<playwright, browser, page, security_answer, url, files>>
loginVars    == <<lpc, attempt, loginResult, error_elements>>
exportVars   == <<epc, cand, export_clicked, click_download, js_error, xls_url,
                  exportResult>>
batchVars    == <<pc, reports, manager, other_batch, sync_cell, idx, results, batch>>
historyVars  == <<calls, filled, submitted, diags, produced, strategies, received,
                  direct_clicks>>
vars == <<resolverVars, exporterVars, loginVars, exportVars, batchVars, historyVars>>

-----------------------------------------------------------------------------
(* Bounds *)
MaxCandidates == 3      \* longest candidate list given to the resolver on its own
MaxReports    == 3      \* longest report list of a batch
MaxAnswerChars == 3     \* longest security_answer string
MaxUrls       == 2      \* longest report_urls list of download_netsuite_reports
MaxClicksCounted == 2   \* direct_clicks counts up to this many clicks
MaxConfigured == 3      \* longest list add_report is called on
MaxLoaded     == 2      \* longest list _load_config has read

-----------------------------------------------------------------------------
(* Exceptions.  Playwright raises TimeoutError (a subclass of Error); both  *)
(* derive from Exception.                                                   *)
Errors == {"TimeoutError", "Error"}

\* self.page is None: the first use of the page raises AttributeError.
NoPageError == "AttributeError"

\* `except Exception:` catches every error the page can raise.
ExceptException(e) == e \in Errors \cup {NoPageError}

-----------------------------------------------------------------------------
(* Element resolver: _click_first_visible / _fill_first_visible             *)

\* What one selector does on the page: the probe locator.is_visible() answers
\* or raises, and the action (click / fill) succeeds or raises.
Candidates ==
    [probe : {"hidden"} \cup Errors, action : {"none"}]
    \cup [probe : {"visible"}, action : {"ok"} \cup Errors]

Hidden    == [probe |-> "hidden",  action |-> "none"]
VisibleOk == [probe |-> "visible", action |-> "ok"]

CandidateLists(n) == UNION {[1..m -> Candidates] : m \in 0..n}

\* Mutant: the per-candidate handler catches timeouts only.
ExceptTimeoutOnly(e) == e = "TimeoutError"

\* The per-candidate `except Exception: continue`.
CandidateCaught(e) == ExceptException(e)

\* An artifact label: a prefix, and for the resolver the action that failed
\* ("<description>_click_error", "<description>_fill_error").
Art(prefix) == <<prefix, "">>

\* Mutant: no artifact on failure.
NotFoundSilent(what, description, probed, acted) ==
    [ok |-> FALSE, raised |-> "none", used |-> 0, probed |-> probed,
     acted |-> acted, diag |-> <<>>]

\* Falling out of the loop: one artifact request, return False.
NotFound(what, description, probed, acted) ==
    [ok |-> FALSE, raised |-> "none", used |-> 0, probed |-> probed,
     acted |-> acted, diag |-> <<<<description, what>>>>]

Escaped(e, probed, acted) ==
    [ok |-> FALSE, raised |-> e, used |-> 0, probed |-> probed,
     acted |-> acted, diag |-> <<>>]

RECURSIVE ResolveFrom(_, _, _, _, _, _)
ResolveFrom(sels, what, description, i, probed, acted) ==
    IF i > Len(sels)
    THEN NotFound(what, description, probed, acted)
    ELSE LET c == sels[i]
             p == Append(probed, i)
         IN  IF c.probe = "hidden"
             THEN ResolveFrom(sels, what, description, i + 1, p, acted)
             ELSE IF c.probe \in Errors
             THEN IF CandidateCaught(c.probe)
                  THEN ResolveFrom(sels, what, description, i + 1, p, acted)
                  ELSE Escaped(c.probe, p, acted)
             ELSE IF c.action = "ok"
             THEN [ok |-> TRUE, raised |-> "none", used |-> i, probed |-> p,
                   acted |-> Append(acted, i), diag |-> <<>>]
             ELSE IF CandidateCaught(c.action)
                  THEN ResolveFrom(sels, what, description, i + 1, p, Append(acted, i))
                  ELSE Escaped(c.action, p, Append(acted, i))

Reverse(s) == [i \in 1..Len(s) |-> s[Len(s) + 1 - i]]

\* Mutant: the candidates are scanned last to first.
LastVisible(sels, what, description) ==
    LET r == ResolveFrom(Reverse(sels), what, description, 1, <<>>, <<>>)
        back(q) == [i \in 1..Len(q) |-> Len(sels) + 1 - q[i]]
    IN  [r EXCEPT !.used = IF r.ok THEN Len(sels) + 1 - r.used ELSE 0,
                  !.probed = back(r.probed), !.acted = back(r.acted)]

\* for selector in selectors: try: probe, act, return True / except: continue
FirstVisible(sels, what, description) ==
    ResolveFrom(sels, what, description, 1, <<>>, <<>>)

_click_first_visible(sels, description) == FirstVisible(sels, "click", description)
_fill_first_visible(sels, description)  == FirstVisible(sels, "fill", description)

NoResult == [ok |-> FALSE, raised |-> "none", used |-> 0, probed |-> <<>>,
             acted |-> <<>>, diag |-> <<>>]

-----------------------------------------------------------------------------
(* Files of download_dir                                                    *)

NoFile == [stem |-> "", ext |-> ""]
\* download.suggested_filename, as the page may offer it
SuggestedNames == {[stem |-> "report", ext |-> "xlsx"], [stem |-> "results", ext |-> "csv"]}
\* what an earlier run may have left in download_dir
EarlierFiles == {[stem |-> "old", ext |-> "xls"], [stem |-> "results", ext |-> "csv"],
                 [stem |-> "notes", ext |-> "txt"],
                 [stem |-> "search_page", ext |-> "html"]}
\* the directories such a run may have left: any of these files, in any order
Directories ==
    {fs \in UNION {[1..n -> EarlierFiles] : n \in 0..Cardinality(EarlierFiles)} :
        \A i, j \in 1..Len(fs) : fs[i] = fs[j] => i = j}

\* download.save_as(path): the file is (re)written, its ctime is now the latest
Remove(fs, f) == SelectSeq(fs, LAMBDA g : g # f)
SaveAs(fs, f) == Append(Remove(fs, f), f)

\* Mutant: the scan takes every file of the directory.
AnyFile(f) == TRUE

\* glob of *.csv, *.xlsx, *.xls
Tabular(f) == f.ext \in {"csv", "xlsx", "xls"}

\* max(all_files, key=os.path.getctime), or None
FindLatest(fs) ==
    LET t == SelectSeq(fs, Tabular)
    IN  IF t = <<>> THEN NoFile ELSE t[Len(t)]

\* _save_debug_artifacts(prefix): <prefix>.png and <prefix>.html are written
\* into download_dir; the resolver's prefixes are "<description>_click_error"
\* and "<description>_fill_error".
ArtifactStem(label) ==
    IF label[2] = "" THEN label[1] ELSE label[1] \o "_" \o label[2] \o "_error"
ArtifactFiles(label) ==
    <<[stem |-> ArtifactStem(label), ext |-> "png"],
      [stem |-> ArtifactStem(label), ext |-> "html"]>>

RECURSIVE SaveArtifacts(_, _)
SaveArtifacts(fs, labels) ==
    IF labels = <<>> THEN fs
    ELSE SaveArtifacts(SaveAs(SaveAs(fs, ArtifactFiles(Head(labels))[1]),
                              ArtifactFiles(Head(labels))[2]),
                       Tail(labels))

\* The artifacts requested since the call's list was d0.
NewArtifacts(d0, d) == SubSeq(d, Len(d0) + 1, Len(d))

\* _save_debug_artifacts in a failure handler: nothing without a page;
\* otherwise the files are written, or the capture raises on the page that
\* has just failed and its own `except Exception` leaves the directory as
\* it was.
_save_debug_artifacts(fs, label) ==
    IF ~page THEN {fs}
    ELSE {SaveArtifacts(fs, <<label>>), fs}

-----------------------------------------------------------------------------
(* Strings: security_answer is a sequence of characters.                    *)
Chars == {"r", "w", ",", " "}
NoAnswer == <<"None">>                 \* security_answer = None
Strings(n) == UNION {[1..m -> Chars] : m \in 0..n}
RightAnswer == <<"r">>                 \* the answer the challenge page accepts

Range(s) == {s[i] : i \in 1..Len(s)}

\* str.split(','): the pieces between the commas, empty pieces included.
RECURSIVE SplitFrom(_, _, _, _)
SplitFrom(s, i, cur, acc) ==
    IF i > Len(s) THEN Append(acc, cur)
    ELSE IF s[i] = "," THEN SplitFrom(s, i + 1, <<>>, Append(acc, cur))
    ELSE SplitFrom(s, i + 1, Append(cur, s[i]), acc)

Split(s) == SplitFrom(s, 1, <<>>, <<>>)

\* str.strip(): leading and trailing blanks removed.
RECURSIVE LStrip(_)
LStrip(s) == IF s # <<>> /\ Head(s) = " " THEN LStrip(Tail(s)) ELSE s
RECURSIVE RStrip(_)
RStrip(s) ==
    IF s # <<>> /\ s[Len(s)] = " " THEN RStrip(SubSeq(s, 1, Len(s) - 1)) ELSE s
Strip(s) == RStrip(LStrip(s))

\* Mutant: only None counts as no answer.
OnlyNone(sa) == sa = NoAnswer

\* `not self.security_answer`: None or the empty string.
NoAnswerConfigured(sa) == sa = NoAnswer \/ sa = <<>>

\* answers = [a.strip() for a in sa.split(',')] if ',' in sa else [sa]
Answers(sa) ==
    IF "," \in Range(sa)
    THEN [i \in 1..Len(Split(sa)) |-> Strip(Split(sa)[i])]
    ELSE <<sa>>

-----------------------------------------------------------------------------
(* URLs, as the substrings the code looks for in them.                      *)
URLs == {u \in [customerlogin : BOOLEAN, securityquestions : BOOLEAN,
                app : BOOLEAN, login : BOOLEAN] : u.customerlogin => u.login}

BlankUrl == [customerlogin |-> FALSE, securityquestions |-> FALSE,
             app |-> FALSE, login |-> FALSE]
\* https://system.netsuite.com/pages/customerlogin.jsp
LoginPageUrl == [BlankUrl EXCEPT !.customerlogin = TRUE, !.login = TRUE]
\* base_url, https://<account>.app.netsuite.com
BaseUrl == [BlankUrl EXCEPT !.app = TRUE]

\* "securityquestions" in url.lower()
OnChallengePage(u) == u.securityquestions

\* where an accepted answer leads: into the application
AcceptedUrls == {u \in URLs : ~u.securityquestions /\ ~u.customerlogin}

\* Mutant: only the first success branch.
LoginSucceededOffChallenge(u) == ~u.customerlogin /\ ~u.securityquestions

\* the two success branches of login()
LoginSucceeded(u) ==
    \/ ~u.customerlogin /\ ~u.securityquestions
    \/ u.app /\ ~u.login

-----------------------------------------------------------------------------
(* Selector lists of login()                                                *)
email_selectors == <<"input[name=email]", "input#email", "input[type=email]",
                     "input[placeholder*=email i]", "input[placeholder*=Email i]">>
password_selectors == <<"input[name=password]", "input#password",
                        "input[type=password]">>
login_button_selectors == <<"input[type=submit]", "button[type=submit]",
                            "button:has-text(Log In)", "#login-submit">>
answer_selectors == <<"input[name=answer]", "input#answer", "input[type=text]">>
submit_selectors == <<"input[type=submit]", "button[type=submit]",
                      "input[value*=submit-ko]", "button:has-text(submit-ko)",
                      "input[value*=Submit]">>

\* What the page may answer for the selectors of one call site.
SiteCandidates == {Hidden, VisibleOk, [probe |-> "visible", action |-> "Error"]}
SiteLists(sels) == [1..Len(sels) -> SiteCandidates]

Bump(c, k) == [c EXCEPT ![k] = @ + 1]
NoCalls == [start |-> 0, login |-> 0, gotoLogin |-> 0, formSubmit |-> 0,
            baseNav |-> 0, export |-> 0, close |-> 0, upload |-> 0]

-----------------------------------------------------------------------------
(* The error scan of login()                                                *)
error_selectors == <<".error", ".alert", "[class*=error]", "[role=alert]">>

\* The texts of the elements one selector matches, in document order: no
\* element, a blank one, one with a message, a blank one before one with a
\* message.
MatchLists == {<<>>, << <<" ">> >>, << <<"t">> >>, << <<" ">>, <<"t">> >>}

NoElements == [i \in 1..Len(error_selectors) |-> <<>>]

\* Pages on which at most two of the error selectors match something.
ErrorPages ==
    {m \in [1..Len(error_selectors) -> MatchLists] :
        Cardinality({i \in 1..Len(error_selectors) : m[i] # <<>>}) <= 2}

\* Mutant: an element is taken for an error whatever its text.
AnyText(t) == TRUE

\* `error_text and error_text.strip()`
HasText(t) == t # <<>> /\ Strip(t) # <<>>

\* for selector in error_selectors: if locator(selector).count() > 0 and the
\* text_content() of locator(selector).first has text: return False
RECURSIVE ErrorScanFrom(_, _)
ErrorScanFrom(m, i) ==
    IF i > Len(error_selectors) THEN FALSE
    ELSE IF Len(m[i]) > 0 /\ HasText(m[i][1]) THEN TRUE
    ELSE ErrorScanFrom(m, i + 1)

-----------------------------------------------------------------------------
(* login()                                                                  *)

\* What login() never touches.
LoginFrame ==
    UNCHANGED <<resolverVars, playwright, browser, page, security_answer,
                exportVars, batchVars, produced, strategies, received, direct_clicks>>

\* On to the next statement of login().
LoginGo(next, att, d) ==
    /\ lpc' = next
    /\ attempt' = att
    /\ diags' = d
    /\ files' = SaveArtifacts(files, NewArtifacts(diags, d))
    /\ UNCHANGED loginResult

\* A return of login(); its locals are gone with it.
LoginReturn(r, d) ==
    /\ lpc' = "idle"
    /\ attempt' = 0
    /\ loginResult' = r
    /\ diags' = d
    /\ files' = SaveArtifacts(files, NewArtifacts(diags, d))

\* Mutant: the outer handler returns False without the artifact.
LoginHandlerSilent == LoginReturn("false", diags)

\* The body of the outer handler: artifact "login_error", return False.
LoginHandler ==
    /\ lpc' = "idle"
    /\ attempt' = 0
    /\ loginResult' = "false"
    /\ diags' = Append(diags, Art("login_error"))
    /\ files' \in _save_debug_artifacts(files, Art("login_error"))

\* Mutant: login() has no outer handler.
LoginNotCaught(e) == FALSE

\* The outer `except Exception as e` of login().
LoginCaught(e) == ExceptException(e)

\* An error raised inside the try block: artifact "login_error", return False.
LoginRaise(e) ==
    IF LoginCaught(e)
    THEN LoginHandler
    ELSE LoginReturn("raised", diags)

\* Mutant: the result of the resolver is not looked at.
LoginResolveUnchecked(r, next) ==
    IF r.raised # "none" THEN LoginRaise(r.raised)
    ELSE LoginGo(next, attempt, diags \o r.diag)

\* A resolver call of the login form: a False result returns False.
LoginResolve(r, next) ==
    IF r.raised # "none" THEN LoginRaise(r.raised)
    ELSE IF ~r.ok THEN LoginReturn("false", diags \o r.diag)
    ELSE LoginGo(next, attempt, diags)

\* page.goto(login_url, wait_until="networkidle"); artifact "login_page"
LoginGoto ==
    /\ lpc = "goto"
    /\ IF ~page
       THEN /\ LoginRaise(NoPageError)
            /\ UNCHANGED <<url, calls>>
       ELSE /\ calls' = Bump(calls, "gotoLogin")
            /\ \/ /\ url' = LoginPageUrl
                  /\ LoginGo("email", attempt, Append(diags, Art("login_page")))
               \/ /\ \E e \in Errors : LoginRaise(e)
                  /\ UNCHANGED url
    /\ UNCHANGED <<filled, submitted>>
    /\ UNCHANGED error_elements
    /\ LoginFrame

LoginFillEmail ==
    /\ lpc = "email"
    /\ \E k \in SiteLists(email_selectors) :
          LoginResolve(_fill_first_visible(k, "email"), "password")
    /\ UNCHANGED <<url, calls, filled, submitted>>
    /\ UNCHANGED error_elements
    /\ LoginFrame

LoginFillPassword ==
    /\ lpc = "password"
    /\ \E k \in SiteLists(password_selectors) :
          LoginResolve(_fill_first_visible(k, "password"), "submit")
    /\ UNCHANGED <<url, calls, filled, submitted>>
    /\ UNCHANGED error_elements
    /\ LoginFrame

LoginClickSubmit ==
    /\ lpc = "submit"
    /\ \E k \in SiteLists(login_button_selectors) :
          LET r == _click_first_visible(k, "login button")
          IN  /\ LoginResolve(r, "wait")
              /\ calls' = IF r.ok THEN Bump(calls, "formSubmit") ELSE calls
    /\ UNCHANGED <<url, filled, submitted>>
    /\ UNCHANGED error_elements
    /\ LoginFrame

\* wait_for_load_state("networkidle"); sleep; artifact "after_login".
\* The submission has led the page to some URL.
LoginWait ==
    /\ lpc = "wait"
    /\ \/ /\ url' \in URLs
          /\ error_elements' \in ErrorPages
          /\ LoginGo("errscan", attempt, Append(diags, Art("after_login")))
       \/ /\ \E e \in Errors : LoginRaise(e)
          /\ UNCHANGED <<url, error_elements>>
    /\ UNCHANGED <<calls, filled, submitted>>
    /\ LoginFrame

\* The scan of the error selectors: an error text returns False at once;
\* count() or text_content() may raise on the way.
LoginErrorScan ==
    /\ lpc = "errscan"
    /\ \/ IF ErrorScanFrom(error_elements, 1)
          THEN LoginReturn("false", diags)
          ELSE LoginGo("detect", attempt, diags)
       \/ \E e \in Errors : LoginRaise(e)
    /\ error_elements' = NoElements
    /\ UNCHANGED <<url, calls, filled, submitted>>
    /\ LoginFrame

\* current_url = self.page.url; the challenge page needs answers.
LoginDetect ==
    /\ lpc = "detect"
    /\ IF OnChallengePage(url)
       THEN IF NoAnswerConfigured(security_answer)
            THEN LoginReturn("false", diags)
            ELSE LoginGo("challenge", 1, diags)
       ELSE LoginGo("decide", attempt, diags)
    /\ UNCHANGED <<url, calls, filled, submitted>>
    /\ UNCHANGED error_elements
    /\ LoginFrame

\* Mutant: the loop does not look at the URL before an attempt.
ChallengePassedNever(u) == FALSE

\* "securityquestions" not in url.lower(): the two `break`s of the loop
ChallengePassed(u) == ~OnChallengePage(u)

\* Mutant: the same answer is tried again.
RetrySame(att) == att

\* The for loop's step to the next answer: `continue` after a failed fill
\* or a failed click, and the end of the body after a rejected answer.
Continue(att) == att + 1

\* One iteration, up to the fill of the answer field.
ChallengeFill ==
    /\ lpc = "challenge"
    /\ attempt <= Len(Answers(security_answer))
    /\ ~ChallengePassed(url)
    /\ \E k \in SiteLists(answer_selectors) :
          LET r == _fill_first_visible(k, "security answer")
          IN  IF r.raised # "none"
              THEN /\ LoginRaise(r.raised)
                   /\ UNCHANGED filled
              ELSE IF ~r.ok
              THEN /\ LoginGo("challenge", Continue(attempt), diags \o r.diag)
                   /\ UNCHANGED filled
              ELSE /\ LoginGo("challenge_submit", attempt, diags)
                   /\ filled' = Append(filled, attempt)
    /\ UNCHANGED <<url, calls, submitted>>
    /\ UNCHANGED error_elements
    /\ LoginFrame

\* The click of the submit control of the challenge page.
ChallengeSubmit ==
    /\ lpc = "challenge_submit"
    /\ \E k \in SiteLists(submit_selectors) :
          LET r == _click_first_visible(k, "security submit")
          IN  IF r.raised # "none"
              THEN /\ LoginRaise(r.raised)
                   /\ UNCHANGED submitted
              ELSE IF ~r.ok
              THEN /\ LoginGo("challenge", Continue(attempt), diags \o r.diag)
                   /\ UNCHANGED submitted
              ELSE /\ LoginGo("challenge_wait", attempt, diags)
                   /\ submitted' = Append(submitted, attempt)
    /\ UNCHANGED <<url, calls, filled>>
    /\ UNCHANGED error_elements
    /\ LoginFrame

\* wait_for_load_state; sleep; re-check of the URL.  The page leaves the
\* challenge when the submitted answer is the right one.
ChallengeWait ==
    /\ lpc = "challenge_wait"
    /\ \/ /\ IF Answers(security_answer)[attempt] = RightAnswer
             THEN url' \in AcceptedUrls
             ELSE url' = url
          /\ LoginGo("challenge",
                     IF ChallengePassed(url') THEN attempt ELSE Continue(attempt),
                     diags)
       \/ /\ \E e \in Errors : LoginRaise(e)
          /\ UNCHANGED url
    /\ UNCHANGED <<calls, filled, submitted>>
    /\ UNCHANGED error_elements
    /\ LoginFrame

\* The loop is left by `break` or by exhausting the answers: artifact
\* "after_security", current_url = self.page.url.
ChallengeEnd ==
    /\ lpc = "challenge"
    /\ attempt > Len(Answers(security_answer)) \/ ChallengePassed(url)
    /\ LoginGo("decide", attempt, Append(diags, Art("after_security")))
    /\ UNCHANGED <<url, calls, filled, submitted>>
    /\ UNCHANGED error_elements
    /\ LoginFrame

\* Mutant: _establish_account_session lets the error of its goto out.
EstablishCaughtNone(e) == FALSE

\* The `except Exception as e` of _establish_account_session.
EstablishCaught(e) == ExceptException(e)

\* The success check; _establish_account_session on success (a failed
\* navigation to base_url is logged and ignored); the failure artifact
\* otherwise.
LoginDecide ==
    /\ lpc = "decide"
    /\ IF LoginSucceeded(url)
       THEN /\ calls' = Bump(calls, "baseNav")
            /\ \/ /\ url' = BaseUrl
                  /\ LoginReturn("true", diags)
               \/ /\ url' = url
                  /\ \E e \in Errors :
                        IF EstablishCaught(e)
                        THEN LoginReturn("true", diags)
                        ELSE LoginRaise(e)
       ELSE /\ \/ LoginReturn("false", Append(diags, Art("login_final_failure")))
               \/ \E e \in Errors : LoginRaise(e)
            /\ UNCHANGED <<url, calls>>
    /\ UNCHANGED <<filled, submitted>>
    /\ UNCHANGED error_elements
    /\ LoginFrame

LoginNext ==
    \/ LoginGoto \/ LoginFillEmail \/ LoginFillPassword \/ LoginClickSubmit
    \/ LoginWait \/ LoginErrorScan \/ LoginDetect
    \/ ChallengeFill \/ ChallengeSubmit \/ ChallengeWait \/ ChallengeEnd
    \/ LoginDecide

-----------------------------------------------------------------------------
(* Report URLs                                                              *)

\* A report URL: None, or a string that may hold the saved-search markers.
ReportUrls == [valid : BOOLEAN, searchresults_nl : BOOLEAN, searchid : BOOLEAN]
StandardUrl == [valid |-> TRUE, searchresults_nl |-> FALSE, searchid |-> FALSE]
SavedSearchUrl == [valid |-> TRUE, searchresults_nl |-> TRUE, searchid |-> TRUE]
NoneUrl == [valid |-> FALSE, searchresults_nl |-> FALSE, searchid |-> FALSE]

\* Mutant: both markers are asked for.
IsSavedSearchBoth(u) == u.searchresults_nl /\ u.searchid

\* "searchresults.nl" in report_url or "searchid=" in report_url
IsSavedSearch(u) == u.searchresults_nl \/ u.searchid

\* A URL string as the sequence of its pieces; `marker in url`.
Contains(pieces, marker) == marker \in Range(pieces)

\* What the tests of the code see of a URL string.
UrlTests(pieces) ==
    [valid |-> TRUE,
     searchresults_nl |-> Contains(pieces, "searchresults.nl"),
     searchid |-> Contains(pieces, "searchid=")]

\* export_saved_search(search_id):
\* f"{self.base_url}/app/common/search/searchresults.nl?searchid={search_id}&whence="
SearchIds == {"123", "", "None"}
BaseUrls == {"https://1234567.app.netsuite.com", "None"}
export_saved_search(base_url, search_id) ==
    <<base_url, "/app/common/search/", "searchresults.nl", "?", "searchid=",
      search_id, "&whence=">>

\* The address of a saved-search results page, as the pieces of the text,
\* and the address of no page.
NoUrl == <<>>
ResultsHrefs ==
    {<<"https://1234567.app.netsuite.com/app/common/search/", "searchresults.nl",
       "?", "searchid=", "123">>,
     <<"https://1234567.app.netsuite.com/app/common/search/", "searchresults.nl",
       "?", "searchid=", "123", "&", "csv=", "Export">>,
     <<"https://1234567.app.netsuite.com/app/common/search/", "searchresults.nl">>,
     <<"https://1234567.app.netsuite.com/app/common/search/", "search.nl",
       "?", "searchid=", "123">>}

\* String.replace(old, new) of the script: the first occurrence only.
RECURSIVE ReplaceFirst(_, _, _)
ReplaceFirst(pieces, old, new) ==
    IF pieces = <<>> THEN <<>>
    ELSE IF Head(pieces) = old THEN <<new>> \o Tail(pieces)
    ELSE <<Head(pieces)>> \o ReplaceFirst(Tail(pieces), old, new)

\* xlsUrl.indexOf('csv=') === -1
LacksCsv(x) == ~Contains(x, "csv=")

\* xlsUrl = currentUrl.replace('searchresults.nl', 'searchresults.xls');
\* if (xlsUrl.indexOf('csv=') === -1) xlsUrl += '&csv=Export&OfficeXML=T&size=1000'
ExportUrl(currentUrl) ==
    LET xlsUrl == ReplaceFirst(currentUrl, "searchresults.nl", "searchresults.xls")
    IN  IF LacksCsv(xlsUrl)
        THEN xlsUrl \o <<"&", "csv=", "Export", "&", "OfficeXML=T", "&", "size=1000">>
        ELSE xlsUrl

target == reports[idx].netsuite_url

ss_export_selectors == <<"[id*=csv]", "[id*=CSV]", "img[alt*=CSV]", "img[alt*=Excel]",
                         "[id*=excel]", "a:has-text(Export)", "span:has-text(Export)",
                         "div[id*=export]", "a[id*=export]", "input[value*=Export]",
                         "a:has-text(CSV)", "a:has-text(Excel)">>
std_export_selectors == <<"text=Export", "button:has-text(Export)", "[id*=export]",
                          "[class*=export]", "text=Excel", "a:has-text(Excel)">>

NoExport == [status |-> "none", file |-> NoFile]
Absent   == [status |-> "absent", file |-> NoFile]     \* return None
Path(f)  == [status |-> "path", file |-> f]            \* return file_path
Raised   == [status |-> "raised", file |-> NoFile]     \* an exception left the call

-----------------------------------------------------------------------------
(* export_report / export_saved_search_results                              *)

\* What the export methods never touch.
ExportFrame ==
    UNCHANGED <<resolverVars, playwright, browser, page, security_answer,
                loginVars, batchVars, calls, filled, submitted>>

\* On to the next statement of the export method.
ExportGo(next, c, clicked, d) ==
    /\ epc' = next
    /\ cand' = c
    /\ export_clicked' = clicked
    /\ UNCHANGED click_download
    /\ UNCHANGED <<js_error, xls_url>>
    /\ diags' = d
    /\ files' = SaveArtifacts(files, NewArtifacts(diags, d))
    /\ UNCHANGED <<exportResult, produced, received, direct_clicks>>

\* A return of the export call; its locals are gone with it.
ExportReturn(r, d) ==
    /\ epc' = "idle"
    /\ cand' = 0
    /\ export_clicked' = FALSE /\ click_download' = "none"
    /\ UNCHANGED <<js_error, xls_url>>
    /\ exportResult' = r
    /\ diags' = d
    /\ files' = SaveArtifacts(files, NewArtifacts(diags, d))
    /\ UNCHANGED <<produced, received, direct_clicks>>

\* Mutant: the outer handler catches timeouts only.
ExportCaughtTimeoutOnly(e) == ExceptTimeoutOnly(e)

\* The outer `except Exception as e` of both export methods.
ExportCaught(e) == ExceptException(e)

\* An error reaching the outer handler: artifact "export_error", return None.
ExportRaise(e) ==
    IF ExportCaught(e)
    THEN ExportReturn(Absent, Append(diags, Art("export_error")))
    ELSE ExportReturn(Raised, diags)

\* Mutant: a saved download does not end the call; the next strategy runs.
DownloadedGoesOn(f) ==
    /\ files' = SaveAs(files, f)
    /\ produced' = produced \cup {idx}
    /\ received' = f
    /\ epc' = IF epc = "ss_direct" THEN "ss_js" ELSE "ss_scan"
    /\ xls_url' = NoUrl
    /\ UNCHANGED <<cand, export_clicked, click_download, js_error, exportResult, diags>>

\* Mutant: the download is saved under a fixed name.
DownloadedAsFixedName(f) ==
    /\ files' = SaveAs(files, [stem |-> "download", ext |-> f.ext])
    /\ produced' = produced \cup {idx}
    /\ received' = f
    /\ epc' = "idle"
    /\ cand' = 0
    /\ export_clicked' = FALSE /\ click_download' = "none"
    /\ xls_url' = NoUrl
    /\ UNCHANGED js_error
    /\ exportResult' = Path([stem |-> "download", ext |-> f.ext])
    /\ UNCHANGED diags

\* download = download_info.value; download.save_as(download_dir/<suggested
\* filename>); return file_path.
Downloaded(f) ==
    /\ files' = SaveAs(files, f)
    /\ produced' = produced \cup {idx}
    /\ received' = f
    /\ epc' = "idle"
    /\ cand' = 0
    /\ export_clicked' = FALSE /\ click_download' = "none"
    /\ xls_url' = NoUrl
    /\ UNCHANGED js_error
    /\ exportResult' = Path(f)
    /\ UNCHANGED diags

\* export_report: the saved-search markers choose the method.
ExportDispatch ==
    /\ epc = "dispatch"
    /\ ExportGo(IF IsSavedSearch(target) THEN "ss_goto" ELSE "std_goto",
                cand, export_clicked, diags)
    /\ UNCHANGED <<url, strategies, direct_clicks>>
    /\ ExportFrame

\* page.goto(search_url); sleep; artifact "search_page".
SSGoto ==
    /\ epc = "ss_goto"
    /\ \/ /\ url' = BaseUrl
          /\ ExportGo("ss_direct", 1, export_clicked, Append(diags, Art("search_page")))
       \/ /\ \E e \in Errors : ExportRaise(e)
          /\ UNCHANGED url
    /\ UNCHANGED <<strategies, direct_clicks>>
    /\ ExportFrame

\* One more click of a direct export control.
Clicked(n) == IF n < MaxClicksCounted THEN n + 1 ELSE n

\* Mutant: a failed selector is tried again.
SameSelector(c) == c

\* `continue` in the handler of strategy 1, and a selector that matches
\* nothing: on to the next selector of the list.
NextSelector(c) == c + 1

\* Strategy 1, one selector: absent or failing selectors are passed over; a
\* present one is clicked under expect_download and the download saved.
SSDirect ==
    /\ epc = "ss_direct"
    /\ cand <= Len(ss_export_selectors)
    /\ \/ /\ \E found \in {"absent", "count_error"} :
                ExportGo("ss_direct", NextSelector(cand), export_clicked, diags)
          /\ UNCHANGED direct_clicks
       \/ /\ \E failure \in {"click_error", "no_download", "save_error"} :
                /\ epc' = "ss_direct"
                /\ cand' = NextSelector(cand)
          /\ direct_clicks' = Clicked(direct_clicks)
          /\ UNCHANGED <<export_clicked, click_download, js_error, xls_url, exportResult, diags, files, produced,
                         received>>
       \/ /\ \E f \in SuggestedNames : Downloaded(f)
          /\ direct_clicks' = Clicked(direct_clicks)
    /\ strategies' = IF cand = 1 THEN Append(strategies, 1) ELSE strategies
    /\ UNCHANGED url
    /\ ExportFrame

\* Strategy 1 found nothing: on to strategy 2.
SSDirectEnd ==
    /\ epc = "ss_direct"
    /\ cand > Len(ss_export_selectors)
    /\ ExportGo("ss_js", cand, export_clicked, diags)
    /\ UNCHANGED <<url, strategies, direct_clicks>>
    /\ ExportFrame

\* str(e) of what strategy 2 can raise, as the pieces of the text.
NoScriptError == <<>>
ScriptErrors == {<<"Timeout 120000ms exceeded">>,
                 <<"Page.evaluate: ", "Download is starting">>,
                 <<"Download.save_as: ", "canceled">>}

\* Mutant: every failure of strategy 2 is waited on.
AnyScriptError(e) == TRUE

\* "Download is starting" in str(e)
DownloadStarting(e) == Contains(e, "Download is starting")

\* Strategy 2, the script: window.location.href is rewritten and assigned.
\* The page is on the address it was sent to.
SSScript ==
    /\ epc = "ss_js"
    /\ \E href \in ResultsHrefs :
          /\ UrlTests(href) = target
          /\ xls_url' = ExportUrl(href)
    /\ epc' = "ss_js_wait"
    /\ strategies' = Append(strategies, 2)
    /\ UNCHANGED <<cand, export_clicked, click_download, js_error, exportResult, diags, files,
                   produced, received, url, direct_clicks>>
    /\ ExportFrame

\* Strategy 2, expect_download: the download is saved, or an error reaches
\* the handler of the strategy.
SSScriptWait ==
    /\ epc = "ss_js_wait"
    /\ \/ /\ \E f \in SuggestedNames : Downloaded(f)
          /\ UNCHANGED js_error
       \/ /\ js_error' \in ScriptErrors
          /\ epc' = "ss_js_failed"
          /\ UNCHANGED <<cand, export_clicked, click_download, exportResult, diags, files, produced,
                         received>>
    /\ xls_url' = NoUrl
    /\ UNCHANGED <<url, strategies, direct_clicks>>
    /\ ExportFrame

\* The handler of strategy 2: the error is logged; "Download is starting"
\* in its text leads to the sleep, anything else straight to strategy 3.
SSScriptFailed ==
    /\ epc = "ss_js_failed"
    /\ epc' = IF DownloadStarting(js_error) THEN "ss_sleep" ELSE "ss_scan"
    /\ js_error' = NoScriptError
    /\ UNCHANGED <<cand, export_clicked, click_download, xls_url, exportResult, diags, files,
                   produced, received, url, strategies, direct_clicks>>
    /\ ExportFrame

\* time.sleep(15)
SSSleep ==
    /\ epc = "ss_sleep"
    /\ epc' = "ss_scan"
    /\ UNCHANGED <<cand, export_clicked, click_download, js_error, xls_url, exportResult, diags,
                   files, produced, received, url, strategies, direct_clicks>>
    /\ ExportFrame

\* Mutant: None is returned without the artifact.
ScanFailedSilent == ExportReturn(Absent, diags)

\* Nothing in download_dir either: artifact "export_not_found", return None.
ScanFailed == ExportReturn(Absent, Append(diags, Art("export_not_found")))

\* Strategy 3: _find_latest_downloaded_file; nothing found is
\* "export_not_found" and None.  glob and getctime only read download_dir,
\* which nothing else writes to during the call.
SSScan ==
    /\ epc = "ss_scan"
    /\ IF FindLatest(files) # NoFile
       THEN ExportReturn(Path(FindLatest(files)), diags)
       ELSE ScanFailed
    /\ strategies' = Append(strategies, 3)
    /\ UNCHANGED direct_clicks
    /\ UNCHANGED url
    /\ ExportFrame

\* page.goto(report_url); sleep.
StdGoto ==
    /\ epc = "std_goto"
    /\ \/ /\ url' = BaseUrl
          /\ ExportGo("std_scan", 1, FALSE, diags)
       \/ /\ \E e \in Errors : ExportRaise(e)
          /\ UNCHANGED url
    /\ UNCHANGED <<strategies, direct_clicks>>
    /\ ExportFrame

\* What a click on an export control does to the download.  The click call
\* returns before `with self.page.expect_download(...)` is entered, so the
\* download it starts is announced either while the click call is still in
\* progress ("early", no waiter registered yet) or after it and within the
\* download timeout ("late"); or the click starts no download ("none").
ClickDownloads == {"none", "early", "late"}

\* The export control was clicked: export_clicked = True, on to the wait.
StdClicked ==
    /\ epc' = "std_await"
    /\ export_clicked' = TRUE
    /\ click_download' \in ClickDownloads
    /\ UNCHANGED <<cand, js_error, xls_url, exportResult, diags, files, produced,
                   received>>

\* The scan for an export affordance, one selector: the first present one
\* whose click works ends the scan.
StdScan ==
    /\ epc = "std_scan"
    /\ cand <= Len(std_export_selectors)
    /\ \/ \E found \in {"absent", "error", "click_error"} :
             ExportGo("std_scan", cand + 1, export_clicked, diags)
       \/ StdClicked
    /\ UNCHANGED <<url, strategies, direct_clicks>>
    /\ ExportFrame

\* Mutant: after a failed menu fallback the scan starts over.
MenuFailedRescan == ExportGo("std_scan", 1, FALSE, diags)

\* Mutant: after a failed menu fallback the download is awaited all the same.
MenuFailedAwaits == ExportGo("std_await", cand, FALSE, diags)

\* `if not export_clicked`: artifact "export_not_found", return None.
MenuFailed == ExportReturn(Absent, Append(diags, Art("export_not_found")))

\* Nothing clicked: the menu + "Excel" fallback, once.
StdMenu ==
    /\ epc = "std_scan"
    /\ cand > Len(std_export_selectors)
    /\ \/ StdClicked
       \/ \E failure \in {"menu", "excel"} : MenuFailed
    /\ UNCHANGED <<url, strategies, direct_clicks>>
    /\ ExportFrame

\* expect_download with the extra "Excel" click inside; save_as.  The
\* waiter sees a download announced after it was registered: the late one
\* of the export click, or one the extra click starts.
StdAwait ==
    /\ epc = "std_await"
    /\ \/ \E f \in SuggestedNames : Downloaded(f)
       \/ \E e \in Errors :
             /\ e = "TimeoutError" => click_download # "late"
             /\ ExportRaise(e)
    /\ UNCHANGED <<url, strategies, direct_clicks>>
    /\ ExportFrame

ExportNext ==
    \/ ExportDispatch
    \/ SSGoto \/ SSDirect \/ SSDirectEnd
    \/ SSScript \/ SSScriptWait \/ SSScriptFailed \/ SSSleep \/ SSScan
    \/ StdGoto \/ StdScan \/ StdMenu \/ StdAwait

-----------------------------------------------------------------------------
(* NetSuiteExporter.start_browser / close                                   *)

\* start_browser: each of its steps may fail, and the failure is re-raised
\* with what was started so far left in place.
StartBrowser ==
    /\ pc = "start_browser"
    /\ calls' = Bump(calls, "start")
    /\ \/ /\ playwright' = "started" /\ browser' = "open" /\ page' = TRUE
          /\ pc' = "login"
          /\ UNCHANGED batch
       \/ /\ \E failed \in {"playwright", "launch", "context"} :
                /\ playwright' = IF failed = "playwright" THEN "none" ELSE "started"
                /\ browser' = IF failed = "context" THEN "open" ELSE "none"
          /\ page' = FALSE
          /\ pc' = "finally"
          /\ batch' = "raising"
    /\ UNCHANGED <<resolverVars, security_answer, url, files, loginVars, exportVars,
                   reports, manager, other_batch, sync_cell, idx, results, filled, submitted, diags, produced,
                   strategies, received, direct_clicks>>

\* finally: exporter.close().  browser.close() and playwright.stop() run in
\* turn; an error of the first leaves the second uncalled, and any error of
\* close() leaves process_reports as an exception.
Close ==
    /\ pc = "finally"
    /\ calls' = Bump(calls, "close")
    /\ \/ /\ browser' = IF browser = "open" THEN "closed" ELSE browser
          /\ \/ /\ playwright' = IF playwright = "started" THEN "stopped" ELSE playwright
                /\ batch' = IF batch = "raising" THEN "raised" ELSE "returned"
             \/ /\ playwright = "started"               \* playwright.stop() raises
                /\ playwright' = "stop_failed"
                /\ batch' = "raised"
       \/ /\ browser = "open"                            \* browser.close() raises
          /\ browser' = "close_failed"
          /\ batch' = "raised"
          /\ UNCHANGED playwright
    /\ pc' = "done"
    /\ UNCHANGED <<resolverVars, page, security_answer, url, files, loginVars,
                   exportVars, reports, manager, other_batch, sync_cell, idx, results, filled, submitted, diags,
                   produced, strategies, received, direct_clicks>>

-----------------------------------------------------------------------------
(* process_reports                                                          *)

\* The statuses process_reports writes to the sync-status cell of a report.
NoStatus == "none"
SyncInProgress == "sync in progress"
SyncCompleted == "sync completed"
SyncFailed == "sync failed"

\* GoogleSheetsUploader.update_sync_status: the cell is updated, or the
\* update fails, the error is printed and False is returned; what the cell
\* can hold afterwards.
update_sync_status(cell, status) == {status, cell}

NoError == "None"
ProcessResult(name) ==
    [report_name |-> name, download_success |-> FALSE, upload_success |-> FALSE,
     file_path |-> NoFile, error |-> NoError]

\* `if not reports: return results`; the Google credentials; the exporter.
Entry ==
    /\ pc = "entry"
    /\ IF reports = <<>>
       THEN /\ pc' = "done"
            /\ batch' = "returned"
       ELSE \/ /\ pc' = "start_browser"
               /\ UNCHANGED batch
            \/ /\ pc' = "done"                       \* no usable credentials
               /\ batch' = "raised"
    /\ UNCHANGED <<resolverVars, exporterVars, loginVars, exportVars, reports, manager, other_batch, sync_cell, idx,
                   results, historyVars>>

\* exporter.login()
CallLogin ==
    /\ pc = "login"
    /\ pc' = "in_login"
    /\ lpc' = "goto"
    /\ loginResult' = "none"
    /\ calls' = Bump(calls, "login")
    /\ UNCHANGED <<resolverVars, exporterVars, attempt, error_elements, exportVars,
                   reports, manager, other_batch, sync_cell, idx,
                   results, batch, filled, submitted, diags, produced,
                   strategies, received, direct_clicks>>

\* Mutant: the result of login() is not looked at.
AfterLoginUnchecked ==
    /\ pc = "in_login"
    /\ loginResult # "none"
    /\ pc' = "loop"
    /\ idx' = 1
    /\ filled' = <<>> /\ submitted' = <<>> /\ diags' = <<>>
    /\ UNCHANGED <<resolverVars, exporterVars, loginVars, exportVars, reports, manager, other_batch, sync_cell,
                   results, batch, calls, produced, strategies,
                   received, direct_clicks>>

\* Mutant: a failed login is tried once more.
AfterLoginRetry ==
    /\ pc = "in_login"
    /\ loginResult # "none"
    /\ IF loginResult = "true"
       THEN /\ pc' = "loop" /\ idx' = 1 /\ UNCHANGED batch
       ELSE IF calls.login < 2
       THEN /\ pc' = "login" /\ UNCHANGED <<idx, batch>>
       ELSE /\ pc' = "finally" /\ batch' = "raising" /\ UNCHANGED idx
    /\ filled' = <<>> /\ submitted' = <<>> /\ diags' = <<>>
    /\ UNCHANGED <<resolverVars, exporterVars, loginVars, exportVars, reports, manager, other_batch, sync_cell,
                   results, calls, produced, strategies, received, direct_clicks>>

\* if not exporter.login(): raise Exception(...)
AfterLogin ==
    /\ pc = "in_login"
    /\ loginResult # "none"
    /\ IF loginResult = "true"
       THEN /\ pc' = "loop"
            /\ idx' = 1
            /\ UNCHANGED batch
       ELSE /\ pc' = "finally"
            /\ batch' = "raising"
            /\ UNCHANGED idx
    /\ filled' = <<>> /\ submitted' = <<>> /\ diags' = <<>>
    /\ UNCHANGED <<resolverVars, exporterVars, loginVars, exportVars, reports, manager, other_batch, sync_cell,
                   results, calls, produced, strategies, received, direct_clicks>>

\* Mutant: the loop stays on the same report.
SameTarget(i) == i

\* for i, report in enumerate(reports, 1): on to the next report.
NextTarget(i) == i + 1

\* Mutant: a failed download is not recorded.
DownloadFailedDropped(res, r) == res

\* Mutant: a failed download is recorded without its error.
DownloadFailedNoError(res, r) == Append(res, [r EXCEPT !.error = NoError])

\* results.append(result); continue  (both failure branches of the download)
DownloadFailed(res, r) == Append(res, r)

\* The head of the loop: the result record, the "in progress" status, and the
\* call of export_report inside the first try.  A URL of None raises at the
\* log line, inside the try.
LoopHead ==
    /\ pc = "loop"
    /\ IF idx > Len(reports)
       THEN /\ pc' = "finally"
            /\ UNCHANGED <<idx, results, epc, calls, sync_cell>>
       ELSE IF ~target.valid
       THEN /\ sync_cell' \in update_sync_status(NoStatus, SyncInProgress)
            /\ results' = DownloadFailed(results,
                              [ProcessResult(idx) EXCEPT !.error = "TypeError"])
            /\ idx' = NextTarget(idx)
            /\ UNCHANGED <<pc, epc, calls>>
       ELSE /\ sync_cell' \in update_sync_status(NoStatus, SyncInProgress)
            /\ pc' = "in_export"
            /\ epc' = "dispatch"
            /\ calls' = Bump(calls, "export")
            /\ UNCHANGED <<idx, results>>
    /\ UNCHANGED <<resolverVars, exporterVars, loginVars, cand, export_clicked, click_download, js_error, xls_url,
                   exportResult, reports, manager, other_batch, batch, filled, submitted, diags, produced,
                   strategies, received, direct_clicks>>

\* What the first try does with the value of export_report.
AfterExport ==
    /\ pc = "in_export"
    /\ exportResult.status # "none"
    /\ IF exportResult.status = "path"
       THEN /\ pc' = "upload"
            /\ UNCHANGED <<idx, results, exportResult, strategies, received, direct_clicks>>
       ELSE /\ results' = DownloadFailed(results,
                              [ProcessResult(idx) EXCEPT !.error =
                                  IF exportResult.status = "absent"
                                  THEN "Export failed" ELSE "Error"])
            /\ idx' = NextTarget(idx)
            /\ pc' = "loop"
            /\ exportResult' = NoExport
            /\ strategies' = <<>>
            /\ received' = NoFile /\ direct_clicks' = 0
    /\ diags' = <<>>
    /\ UNCHANGED <<resolverVars, exporterVars, loginVars, epc, cand, export_clicked, click_download, js_error, xls_url,
                   reports, manager, other_batch, sync_cell, batch, calls, filled, submitted, produced>>

\* The local `result` when the first try is left with a file:
\* result.download_success = True; result.file_path = file_path.
result ==
    [ProcessResult(idx) EXCEPT !.download_success = TRUE,
                               !.file_path = exportResult.file]

\* The second try: upload_excel_to_google_sheets returns True or False, or
\* raises; the result is appended in each case.
Upload ==
    /\ pc = "upload"
    /\ \E outcome \in {"true", "false", "UploadError"} :
          /\ results' = Append(results,
                [result EXCEPT
                    !.upload_success = (outcome = "true"),
                    !.error = IF outcome = "true" THEN NoError
                              ELSE IF outcome = "false" THEN "upload failed"
                              ELSE outcome])
          /\ sync_cell' \in update_sync_status(sync_cell,
                                IF outcome = "true" THEN SyncCompleted ELSE SyncFailed)
    /\ calls' = Bump(calls, "upload")
    /\ idx' = NextTarget(idx)
    /\ pc' = "loop"
    /\ exportResult' = NoExport
    /\ strategies' = <<>>
    /\ received' = NoFile /\ direct_clicks' = 0
    /\ UNCHANGED <<resolverVars, exporterVars, loginVars, epc, cand, export_clicked, click_download, js_error, xls_url,
                   reports, manager, other_batch, batch, filled, submitted, diags, produced>>

BatchNext ==
    \/ Entry \/ StartBrowser \/ CallLogin \/ AfterLogin
    \/ LoopHead \/ AfterExport \/ Upload \/ Close

-----------------------------------------------------------------------------
(* download_netsuite_reports: the same start, login check and finally as    *)
(* process_reports, around a loop that fills the dict `results`.            *)

\* results[key] = value
Put(d, key, value) ==
    [k \in DOMAIN d \cup {key} |-> IF k = key THEN value ELSE d[k]]

\* for i, report_url in enumerate(report_urls, 1): export_report(report_url).
\* A report_url of None raises at the dispatch test, outside the method's
\* try, and is caught by the loop's own handler: results[report_url] = None.
DlLoopHead ==
    /\ pc = "loop"
    /\ IF idx > Len(reports)
       THEN /\ pc' = "finally"
            /\ UNCHANGED <<idx, results, epc, calls>>
       ELSE IF ~target.valid
       THEN /\ results' = Put(results, target, NoFile)
            /\ idx' = idx + 1
            /\ UNCHANGED <<pc, epc, calls>>
       ELSE /\ pc' = "in_export"
            /\ epc' = "dispatch"
            /\ calls' = Bump(calls, "export")
            /\ UNCHANGED <<idx, results>>
    /\ UNCHANGED <<resolverVars, exporterVars, loginVars, cand, export_clicked, click_download, js_error, xls_url,
                   exportResult, reports, manager, other_batch, sync_cell, batch, filled, submitted, diags, produced,
                   strategies, received, direct_clicks>>

\* results[report_url] = file_path, a path or None.
DlAfterExport ==
    /\ pc = "in_export"
    /\ exportResult.status # "none"
    /\ results' = Put(results, target, exportResult.file)
    /\ idx' = idx + 1
    /\ pc' = "loop"
    /\ exportResult' = NoExport
    /\ diags' = <<>> /\ strategies' = <<>> /\ received' = NoFile /\ direct_clicks' = 0
    /\ UNCHANGED <<resolverVars, exporterVars, loginVars, epc, cand, export_clicked, click_download, js_error, xls_url,
                   reports, manager, other_batch, sync_cell, batch, calls, filled, submitted, produced>>

-----------------------------------------------------------------------------
(* The resolver called on its own                                           *)

ClickFirstVisible ==
    /\ rpc = "ready"
    /\ rres' = _click_first_visible(selectors, "control")
    /\ rpc' = "returned"
    /\ UNCHANGED <<selectors, exporterVars, loginVars, exportVars, batchVars,
                   historyVars>>

FillFirstVisible ==
    /\ rpc = "ready"
    /\ rres' = _fill_first_visible(selectors, "field")
    /\ rpc' = "returned"
    /\ UNCHANGED <<selectors, exporterVars, loginVars, exportVars, batchVars,
                   historyVars>>

-----------------------------------------------------------------------------
(* NetSuiteExporter.__init__: download_dir; a second batch                  *)

NoDir == "None"
WorkingDirs == {"/srv/a", "/srv/b"}

\* self.download_dir = download_dir or os.path.join(os.getcwd(), "downloads")
download_dir(arg, cwd) ==
    IF arg \in {NoDir, ""} THEN <<cwd, "downloads">> ELSE <<arg>>

\* process_reports constructs its exporter without a download_dir argument.
BatchDownloadDir(cwd) == download_dir(NoDir, cwd)

NoOtherBatch == [own_cwd |-> "", cwd |-> "", saved |-> {}]

\* The other batch saves a download of its own: download.save_as(
\* os.path.join(self.download_dir, download.suggested_filename)) of its
\* exporter.  The file lands in this batch's download_dir when the two
\* paths are the same.
OtherBatchSaves ==
    /\ other_batch.cwd # ""
    /\ \E f \in SuggestedNames \ other_batch.saved :
          /\ other_batch' = [other_batch EXCEPT !.saved = @ \cup {f}]
          /\ files' = IF BatchDownloadDir(other_batch.cwd)
                           = BatchDownloadDir(other_batch.own_cwd)
                       THEN SaveAs(files, f)
                       ELSE files
    /\ UNCHANGED <<resolverVars, playwright, browser, page, security_answer, url,
                   loginVars, exportVars, pc, reports, manager, sync_cell, idx,
                   results, batch, historyVars>>

-----------------------------------------------------------------------------
(* ReportConfigManager (report_config.py)                                   *)

ReportNames == {"a", "b", "c"}
ConfigUrls == {"u1", "u2"}

\* ReportConfig, with the fields the calls below read or write.
ReportConfigs == [name : ReportNames, netsuite_url : ConfigUrls, enabled : BOOLEAN]

NoManager == [reports |-> <<>>, op |-> "none", arg |-> "", returned |-> "none"]

UniqueNames(rs) == \A i, j \in 1..Len(rs) : rs[i].name = rs[j].name => i = j

\* What _load_config can have read: a list with unique names.
LoadedConfigs ==
    {rs \in UNION {[1..n -> ReportConfigs] : n \in 0..MaxLoaded} : UniqueNames(rs)}

\* any(r.name == name for r in self.reports)
HasName(rs, name) == \E i \in 1..Len(rs) : rs[i].name = name

\* The first r of the list with r.name == name, where the for loops stop.
FirstNamed(rs, name) ==
    CHOOSE i \in 1..Len(rs) :
        rs[i].name = name /\ \A j \in 1..(i - 1) : rs[j].name # name

\* _save_config, then `return True`: the file is written, or open/json.dump
\* raises after the list was changed.
Saved == {"True", "OSError"}

\* What a call leaves: the list, and what it returned or raised.
Left(rs, op, arg, returned) ==
    [reports |-> rs, op |-> op, arg |-> arg, returned |-> returned]

\* Mutant: add_report does not look for the name.
DuplicateIgnored(rs, report) == FALSE

\* add_report: the duplicate test.
Duplicate(rs, report) == HasName(rs, report.name)

add_report(rs, report) ==
    IF Duplicate(rs, report)
    THEN {Left(rs, "add_report", report.name, "False")}
    ELSE {Left(Append(rs, report), "add_report", report.name, x) : x \in Saved}

\* del self.reports[i]
Without(rs, i) == SubSeq(rs, 1, i - 1) \o SubSeq(rs, i + 1, Len(rs))

remove_report(rs, name) ==
    IF HasName(rs, name)
    THEN {Left(Without(rs, FirstNamed(rs, name)), "remove_report", name, x) :
             x \in Saved}
    ELSE {Left(rs, "remove_report", name, "False")}

\* **kwargs of update_report: the keys given, and a value for each field.
Keys == {"name", "netsuite_url", "enabled", "nosuch"}
Kwargs ==
    {kw \in [given : SUBSET Keys, name : ReportNames, netsuite_url : ConfigUrls,
             enabled : BOOLEAN] :
        /\ "name" \notin kw.given => kw.name = "a"
        /\ "netsuite_url" \notin kw.given => kw.netsuite_url = "u1"
        /\ "enabled" \notin kw.given => kw.enabled}

\* update_report(self, name: str, **kwargs): a keyword argument called
\* `name` cannot be bound next to the positional one; the call raises
\* TypeError before the body runs.
KeywordClash(kw) == "name" \in kw.given

\* hasattr(r, key) for the keys of the model: the fields of ReportConfig.
hasattr(r, key) == key \in DOMAIN r

\* for key, value in kwargs.items(): if hasattr(r, key): setattr(r, key, value)
SetAttrs(r, kw) ==
    [name |-> IF "name" \in kw.given /\ hasattr(r, "name") THEN kw.name ELSE r.name,
     netsuite_url |-> IF "netsuite_url" \in kw.given /\ hasattr(r, "netsuite_url")
                      THEN kw.netsuite_url ELSE r.netsuite_url,
     enabled |-> IF "enabled" \in kw.given /\ hasattr(r, "enabled")
                 THEN kw.enabled ELSE r.enabled]

update_report(rs, name, kw, op) ==
    IF KeywordClash(kw) THEN {Left(rs, op, name, "TypeError")}
    ELSE IF HasName(rs, name)
    THEN LET i == FirstNamed(rs, name)
         IN  {Left([rs EXCEPT ![i] = SetAttrs(rs[i], kw)], op, name, x) : x \in Saved}
    ELSE {Left(rs, op, name, "False")}

\* update_report(name, enabled=True) / update_report(name, enabled=False)
EnabledOnly(b) ==
    [given |-> {"enabled"}, name |-> "a", netsuite_url |-> "u1", enabled |-> b]
enable_report(rs, name) == update_report(rs, name, EnabledOnly(TRUE), "enable_report")
disable_report(rs, name) == update_report(rs, name, EnabledOnly(FALSE), "disable_report")

ConfigFrame ==
    UNCHANGED <<resolverVars, exporterVars, loginVars, exportVars, pc, reports,
                other_batch, sync_cell, idx, results, batch, historyVars>>

AddReport ==
    /\ Len(manager.reports) <= MaxConfigured
    /\ \E report \in ReportConfigs : manager' \in add_report(manager.reports, report)
    /\ ConfigFrame

RemoveReport ==
    /\ \E name \in ReportNames : manager' \in remove_report(manager.reports, name)
    /\ ConfigFrame

UpdateReport ==
    /\ \E name \in ReportNames : \E kw \in Kwargs :
          manager' \in update_report(manager.reports, name, kw, "update_report")
    /\ ConfigFrame

EnableReport ==
    /\ \E name \in ReportNames : manager' \in enable_report(manager.reports, name)
    /\ ConfigFrame

DisableReport ==
    /\ \E name \in ReportNames : manager' \in disable_report(manager.reports, name)
    /\ ConfigFrame

-----------------------------------------------------------------------------
(* Specifications                                                           *)

Report(u) == [netsuite_url |-> u]

\* A batch: process_reports is entered with a report list; the exporter is
\* not started yet and download_dir is empty.
BatchAnswers == {<<"r">>}
BatchUrls == {StandardUrl, SavedSearchUrl, NoneUrl}
Init ==
    /\ rpc = "idle" /\ selectors = <<>> /\ rres = NoResult
    /\ lpc = "idle" /\ attempt = 0 /\ loginResult = "none" /\ error_elements = NoElements
    /\ epc = "idle" /\ cand = 0 /\ export_clicked = FALSE /\ click_download = "none" /\ js_error = NoScriptError /\ xls_url = NoUrl
    /\ exportResult = NoExport
    /\ pc = "entry" /\ idx = 0 /\ results = <<>> /\ batch = "running"
    /\ reports \in UNION {[1..n -> {Report(u) : u \in BatchUrls}] : n \in 0..MaxReports}
    /\ other_batch = NoOtherBatch
    /\ sync_cell = NoStatus
    /\ manager = NoManager
    /\ playwright = "none" /\ browser = "none" /\ page = FALSE
    /\ security_answer \in BatchAnswers
    /\ url = BlankUrl /\ files = <<>>
    /\ calls = NoCalls /\ filled = <<>> /\ submitted = <<>> /\ diags = <<>>
    /\ produced = {} /\ strategies = <<>> /\ received = NoFile /\ direct_clicks = 0

Next == BatchNext \/ LoginNext \/ ExportNext

Spec == Init /\ [][Next]_vars

\* The resolver on every candidate list up to MaxCandidates.
InitResolver ==
    /\ rpc = "ready" /\ selectors \in CandidateLists(MaxCandidates) /\ rres = NoResult
    /\ lpc = "idle" /\ attempt = 0 /\ loginResult = "none" /\ error_elements = NoElements
    /\ epc = "idle" /\ cand = 0 /\ export_clicked = FALSE /\ click_download = "none" /\ js_error = NoScriptError /\ xls_url = NoUrl
    /\ exportResult = NoExport
    /\ pc = "idle" /\ reports = <<>> /\ idx = 0 /\ results = <<>> /\ batch = "running"
    /\ other_batch = NoOtherBatch
    /\ sync_cell = NoStatus
    /\ manager = NoManager
    /\ playwright = "started" /\ browser = "open" /\ page = TRUE
    /\ security_answer = NoAnswer /\ url = BlankUrl /\ files = <<>>
    /\ calls = NoCalls /\ filled = <<>> /\ submitted = <<>> /\ diags = <<>>
    /\ produced = {} /\ strategies = <<>> /\ received = NoFile /\ direct_clicks = 0

NextResolver == ClickFirstVisible \/ FillFirstVisible

SpecResolver == InitResolver /\ [][NextResolver]_vars

\* One login() call, on a started browser or on an exporter whose browser was
\* never started, for every security_answer up to MaxAnswerChars characters.
InitLogin ==
    /\ rpc = "idle" /\ selectors = <<>> /\ rres = NoResult
    /\ lpc = "goto" /\ attempt = 0 /\ loginResult = "none" /\ error_elements = NoElements
    /\ epc = "idle" /\ cand = 0 /\ export_clicked = FALSE /\ click_download = "none" /\ js_error = NoScriptError /\ xls_url = NoUrl
    /\ exportResult = NoExport
    /\ pc = "in_login" /\ reports = <<>> /\ idx = 0 /\ results = <<>>
    /\ other_batch = NoOtherBatch
    /\ sync_cell = NoStatus
    /\ manager = NoManager
    /\ batch = "running"
    /\ page \in BOOLEAN
    /\ playwright = (IF page THEN "started" ELSE "none")
    /\ browser = (IF page THEN "open" ELSE "none")
    /\ security_answer \in {NoAnswer} \cup Strings(MaxAnswerChars)
    /\ url = BlankUrl /\ files = <<>>
    /\ calls = (IF page THEN Bump(Bump(NoCalls, "start"), "login")
                ELSE Bump(NoCalls, "login"))
    /\ filled = <<>> /\ submitted = <<>> /\ diags = <<>>
    /\ produced = {} /\ strategies = <<>> /\ received = NoFile /\ direct_clicks = 0

SpecLogin == InitLogin /\ [][LoginNext]_vars

\* One export_report call of a logged-in exporter, for every kind of report
\* URL, on a download_dir that holds files of an earlier run.
InitExport ==
    /\ rpc = "idle" /\ selectors = <<>> /\ rres = NoResult
    /\ lpc = "idle" /\ attempt = 0 /\ loginResult = "true" /\ error_elements = NoElements
    /\ epc = "dispatch" /\ cand = 0 /\ export_clicked = FALSE /\ click_download = "none" /\ js_error = NoScriptError /\ xls_url = NoUrl
    /\ exportResult = NoExport
    /\ pc = "in_export" /\ idx = 1 /\ results = <<>> /\ batch = "running"
    /\ reports \in {<<Report(u)>> : u \in {v \in ReportUrls : v.valid}}
    /\ other_batch = NoOtherBatch
    /\ sync_cell = NoStatus
    /\ manager = NoManager
    /\ playwright = "started" /\ browser = "open" /\ page = TRUE
    /\ security_answer = NoAnswer /\ url = BaseUrl
    /\ files \in Directories
    /\ calls = Bump(Bump(Bump(NoCalls, "start"), "login"), "export")
    /\ filled = <<>> /\ submitted = <<>> /\ diags = <<>>
    /\ produced = {} /\ strategies = <<>> /\ received = NoFile /\ direct_clicks = 0

SpecExport == InitExport /\ [][ExportNext]_vars

\* One export_report call of a batch started by process_reports on an empty
\* download_dir, while a second batch started the same way, in the same or
\* in another working directory, saves its downloads.
InitTwoBatches ==
    /\ rpc = "idle" /\ selectors = <<>> /\ rres = NoResult
    /\ lpc = "idle" /\ attempt = 0 /\ loginResult = "true" /\ error_elements = NoElements
    /\ epc = "dispatch" /\ cand = 0 /\ export_clicked = FALSE /\ click_download = "none"
    /\ js_error = NoScriptError /\ xls_url = NoUrl
    /\ exportResult = NoExport
    /\ pc = "in_export" /\ idx = 1 /\ results = <<>> /\ batch = "running"
    /\ reports \in {<<Report(u)>> : u \in {v \in ReportUrls : v.valid}}
    /\ other_batch \in [own_cwd : WorkingDirs, cwd : WorkingDirs, saved : {{}}]
    /\ sync_cell = NoStatus
    /\ manager = NoManager
    /\ playwright = "started" /\ browser = "open" /\ page = TRUE
    /\ security_answer = NoAnswer /\ url = BaseUrl
    /\ files = <<>>
    /\ calls = Bump(Bump(Bump(NoCalls, "start"), "login"), "export")
    /\ filled = <<>> /\ submitted = <<>> /\ diags = <<>>
    /\ produced = {} /\ strategies = <<>> /\ received = NoFile /\ direct_clicks = 0

NextTwoBatches == ExportNext \/ OtherBatchSaves

SpecTwoBatches == InitTwoBatches /\ [][NextTwoBatches]_vars

\* A ReportConfigManager after _load_config, and any sequence of calls of
\* its five modifying methods.
InitConfig ==
    /\ rpc = "idle" /\ selectors = <<>> /\ rres = NoResult
    /\ lpc = "idle" /\ attempt = 0 /\ loginResult = "none" /\ error_elements = NoElements
    /\ epc = "idle" /\ cand = 0 /\ export_clicked = FALSE /\ click_download = "none"
    /\ js_error = NoScriptError /\ xls_url = NoUrl
    /\ exportResult = NoExport
    /\ pc = "idle" /\ reports = <<>> /\ idx = 0 /\ results = <<>> /\ batch = "running"
    /\ other_batch = NoOtherBatch
    /\ sync_cell = NoStatus
    /\ manager \in {Left(rs, "none", "", "none") : rs \in LoadedConfigs}
    /\ playwright = "none" /\ browser = "none" /\ page = FALSE
    /\ security_answer = NoAnswer /\ url = BlankUrl /\ files = <<>>
    /\ calls = NoCalls /\ filled = <<>> /\ submitted = <<>> /\ diags = <<>>
    /\ produced = {} /\ strategies = <<>> /\ received = NoFile /\ direct_clicks = 0

NextConfig ==
    AddReport \/ RemoveReport \/ UpdateReport \/ EnableReport \/ DisableReport

SpecConfig == InitConfig /\ [][NextConfig]_vars

\* download_netsuite_reports on a list of report URLs (None among them),
\* from the call of start_browser on; `results` is the dict it returns.
DownloadUrls == {u \in ReportUrls : u.valid} \cup {NoneUrl}
DownloadAnswers == {NoAnswer, <<"r">>, <<"w", ",", "w">>}
InitDownload ==
    /\ rpc = "idle" /\ selectors = <<>> /\ rres = NoResult
    /\ lpc = "idle" /\ attempt = 0 /\ loginResult = "none" /\ error_elements = NoElements
    /\ epc = "idle" /\ cand = 0 /\ export_clicked = FALSE /\ click_download = "none" /\ js_error = NoScriptError /\ xls_url = NoUrl
    /\ exportResult = NoExport
    /\ pc = "start_browser" /\ idx = 0 /\ results = <<>> /\ batch = "running"
    /\ reports \in UNION {[1..n -> {Report(u) : u \in DownloadUrls}] : n \in 0..MaxUrls}
    /\ other_batch = NoOtherBatch
    /\ sync_cell = NoStatus
    /\ manager = NoManager
    /\ playwright = "none" /\ browser = "none" /\ page = FALSE
    /\ security_answer \in DownloadAnswers
    /\ url = BlankUrl /\ files = <<>>
    /\ calls = NoCalls /\ filled = <<>> /\ submitted = <<>> /\ diags = <<>>
    /\ produced = {} /\ strategies = <<>> /\ received = NoFile /\ direct_clicks = 0

NextDownload ==
    \/ StartBrowser \/ CallLogin \/ AfterLogin \/ LoginNext
    \/ DlLoopHead \/ ExportNext \/ DlAfterExport \/ Close

SpecDownload == InitDownload /\ [][NextDownload]_vars

\* Every awaited browser operation completes or times out: a step that can
\* be taken is taken.
SpecDownloadFair == SpecDownload /\ WF_vars(NextDownload)

-----------------------------------------------------------------------------
(* Properties                                                               *)

Last(q) == q[Len(q)]
Upto(n) == [i \in 1..n |-> i]
Increasing(q) == \A i \in 1..Len(q) - 1 : q[i] < q[i + 1]

\* results holds one record per report 1..n, in input order
InOrder(n) ==
    /\ Len(results) = n
    /\ \A j \in 1..n : results[j].report_name = j

\* C1: after a successful login, process_reports has one ProcessResult per
\* input report, in input order, whatever each download and upload did: the
\* list grows by exactly one record per report while the loop runs, is
\* complete when the loop is left, and is what a returning batch returns.
C1_OneResultPerReport ==
    /\ pc \in {"loop", "in_export", "upload"} =>
          /\ InOrder(idx - 1)
          /\ idx <= Len(reports) + 1
    /\ pc \in {"finally", "done"} /\ loginResult = "true" => InOrder(Len(reports))
    /\ batch = "returned" => InOrder(Len(reports))

C1_Witness ==
    /\ batch = "returned"
    /\ Len(reports) = 3
    /\ results[1].error = "TypeError"
    /\ results[2].error = "Export failed"
    /\ results[3].upload_success

\* C2: with 3 targets of which the 1st and 3rd produce a download and the
\* 2nd produces none, the outcome list has length 3 in input order, outcome 2
\* failed with an absent path, outcomes 1 and 3 succeeded (saved-search and
\* standard-report targets alike).
C2_SecondTargetFailed ==
    ( /\ pc \in {"finally", "done"}
      /\ loginResult = "true"
      /\ Len(reports) = 3
      /\ \A j \in 1..3 : reports[j].netsuite_url.valid
      /\ produced = {1, 3} )
    => /\ InOrder(3)
       /\ results[1].download_success
       /\ ~results[2].download_success
       /\ results[2].file_path = NoFile
       /\ results[3].download_success

\* C3: when login() returns False no export is called, no outcome is
\* produced, and the batch ends by raising, never by returning a list.
C3_LoginFailureIsFatal ==
    loginResult \in {"false", "raised"} =>
        /\ calls.export = 0
        /\ results = <<>>
        /\ idx = 0
        /\ pc \in {"in_login", "finally", "done"}
        /\ batch # "returned"
        /\ pc = "done" => batch = "raised"

C3_Witness ==
    /\ loginResult = "false"
    /\ pc = "done"
    /\ batch = "raised"
    /\ Len(reports) = 2

\* C4: when the batch has exited, close() was invoked and every resource
\* that was started is released (browser closed, Playwright stopped), also
\* when one of the two teardown calls fails: only the resource whose own
\* teardown call raised may be left.
C4_AllReleased ==
    pc = "done" /\ calls.start > 0 =>
        /\ calls.close >= 1
        /\ browser # "open"
        /\ playwright # "started"

\* C5: login() is invoked exactly once per batch, before the first export
\* and never again; one login() call loads the login page and submits the
\* login form at most once.
C5_OneLogin ==
    /\ calls.login <= 1
    /\ calls.gotoLogin <= calls.login
    /\ calls.formSubmit <= calls.gotoLogin
    /\ calls.export > 0 \/ pc \in {"loop", "in_export", "upload"} =>
          /\ calls.login = 1
          /\ loginResult = "true"
          /\ lpc = "idle"
    /\ lpc # "idle" => calls.export = 0 /\ pc = "in_login"

C5_Witness ==
    /\ pc = "done"
    /\ calls.export = 3
    /\ calls.login = 1
    /\ calls.gotoLogin = 1
    /\ calls.formSubmit = 1
    /\ ~results[1].download_success
    /\ results[3].download_success

\* C6: no error raised inside export_report / export_saved_search_results
\* leaves the call: the call ends with a path or with None.
C6_ExportNeverRaises ==
    /\ exportResult.status \in {"none", "path", "absent"}
    /\ \A j \in 1..Len(results) : results[j].error # "Error"

C6_Witness ==
    /\ pc = "in_export"
    /\ IsSavedSearch(target)
    /\ exportResult = Absent
    /\ diags = <<Art("export_error")>>

\* ---- the element resolver (SpecResolver) ----
Visible(i) == selectors[i].probe = "visible"
Usable(i)  == Visible(i) /\ selectors[i].action = "ok"
Failing(i) == selectors[i].probe \in Errors \/ selectors[i].action \in Errors
First(P(_)) == CHOOSE i \in 1..Len(selectors) : P(i) /\ \A j \in 1..(i - 1) : ~P(j)

\* C7 as stated: with at least one visible candidate the call returns True
\* having acted on the earliest visible candidate and on no other.
C7_EarliestVisible ==
    rpc = "returned" /\ (\E i \in 1..Len(selectors) : Visible(i)) =>
        /\ rres.ok
        /\ rres.acted = <<First(Visible)>>

\* C7 as amended: with at least one candidate that is visible and whose
\* action does not raise, the call returns True with the earliest such
\* candidate; nothing after it is probed or acted on, and the candidates
\* acted on before it are the visible ones whose action raised.
C7_EarliestUsable ==
    rpc = "returned" /\ (\E i \in 1..Len(selectors) : Usable(i)) =>
        /\ rres.ok
        /\ rres.used = First(Usable)
        /\ rres.probed = Upto(rres.used)
        /\ rres.acted = SelectSeq(Upto(rres.used), Visible)

C7_Witness ==
    /\ rpc = "returned"
    /\ Len(selectors) = 3
    /\ selectors[1].action = "TimeoutError"
    /\ Usable(2) /\ Usable(3)
    /\ rres.ok /\ rres.acted = <<1, 2>>

\* C8: with no visible candidate (the empty list included) every candidate
\* is probed once in order, nothing is clicked or filled, the call returns
\* False and requests one diagnostics artifact.
C8_NothingVisible ==
    rpc = "returned" /\ (\A i \in 1..Len(selectors) : ~Visible(i)) =>
        /\ rres.probed = Upto(Len(selectors))
        /\ rres.acted = <<>>
        /\ ~rres.ok /\ rres.raised = "none"
        /\ Len(rres.diag) = 1

C8_Witness ==
    /\ rpc = "returned"
    /\ Len(selectors) = 3
    /\ selectors[2].probe = "Error"
    /\ ~rres.ok
    /\ rres.probed = <<1, 2, 3>>

\* C9: an error of a candidate's probe or action never leaves the resolver:
\* the candidate is given up, the next one in the list is tried, and the
\* call returns True or False.
C9_ErrorsSwallowed ==
    rpc = "returned" =>
        /\ rres.raised = "none"
        /\ rres.ok \in BOOLEAN
        /\ \A k \in 1..Len(rres.probed) :
              Failing(rres.probed[k]) /\ rres.probed[k] < Len(selectors) =>
                  /\ k < Len(rres.probed)
                  /\ rres.probed[k + 1] = rres.probed[k] + 1

C9_Witness ==
    /\ rpc = "returned"
    /\ Len(selectors) = 3
    /\ selectors[1].probe = "Error"
    /\ selectors[2].action = "Error"
    /\ rres.ok /\ rres.used = 3

\* ---- the challenge loop (SpecLogin) ----
answers == Answers(security_answer)
Accepted(i) == answers[i] = RightAnswer
SomeAccepted == \E i \in 1..Len(answers) : Accepted(i)
FirstAccepted == CHOOSE i \in 1..Len(answers) : Accepted(i) /\ \A j \in 1..(i - 1) : ~Accepted(j)
LoopDone == \E i \in 1..Len(diags) : diags[i] = Art("after_security")
ControlsResolved ==
    \A i \in 1..Len(diags) :
        diags[i] \notin {<<"security answer", "fill">>, <<"security submit", "click">>}

\* C10 as stated: when the first answer the page accepts is at index k
\* (0-based), exactly k+1 submissions have occurred, in list order.
C10_ExactlyUpToAccepted ==
    ( /\ LoopDone /\ security_answer # NoAnswer
      /\ submitted # <<>> /\ Accepted(Last(submitted)) )
    => submitted = Upto(Last(submitted))

C10_Order ==
    /\ Increasing(filled) /\ Increasing(submitted)
    /\ \A i \in 1..Len(submitted) :
          /\ submitted[i] \in Range(filled)
          /\ Accepted(submitted[i]) => i = Len(submitted) /\ Last(filled) = submitted[i]
    /\ LoopDone /\ ControlsResolved /\ SomeAccepted => submitted = Upto(FirstAccepted)
    /\ ( /\ security_answer = <<"w", ",", "r">>
         /\ loginResult # "none" /\ LoopDone /\ ControlsResolved )
       => submitted = <<1, 2>> /\ loginResult = "true" /\ calls.baseNav = 1

\* C10 as amended: the submissions are in list order, at most one per
\* answer, each of an answer filled in before; an accepted answer is the
\* last one filled and submitted; nothing is filled or submitted while the
\* URL is off the challenge page; with the first accepted answer at index k
\* and every fill and submit click of the loop resolving, exactly k+1
\* submissions occur; with [wrong, right] that is two submissions and an
\* established session.
C10_SubmissionsInOrder ==
    /\ [](security_answer # NoAnswer => C10_Order)
    /\ [][filled' # filled \/ submitted' # submitted => OnChallengePage(url)]_vars

C10_Witness ==
    /\ security_answer = <<"w", ",", "r">>
    /\ submitted = <<1, 2>>
    /\ loginResult = "true"
    /\ calls.baseNav = 1

AllWrong == \A i \in 1..Len(answers) : ~Accepted(i)

\* C11 as stated: when the challenge is detected and all N answers are
\* incorrect, exactly N submissions occur, one per answer in list order,
\* before the loop ends.
C11_ExactlyN ==
    LoopDone /\ security_answer # NoAnswer /\ AllWrong =>
        submitted = Upto(Len(answers))

\* C11 as amended: with all N answers incorrect the submissions are in list
\* order, at most one per answer, hence at most N; the loop ends with
\* exactly N when every fill and submit click of the loop resolved, and
\* the URL then still carries the challenge marker at the success check.
C11_AtMostN ==
    security_answer # NoAnswer /\ AllWrong =>
        /\ Increasing(submitted)
        /\ Range(submitted) \subseteq 1..Len(answers)
        /\ Range(submitted) \subseteq Range(filled)
        /\ LoopDone /\ ControlsResolved =>
              /\ submitted = Upto(Len(answers))
              /\ lpc = "decide" => OnChallengePage(url)

C11_Witness ==
    /\ security_answer = <<"w", ",", "w">>
    /\ LoopDone /\ ControlsResolved
    /\ submitted = <<1, 2>>
    /\ loginResult = "false"

\* C12: when the URL still carries the challenge marker at the success
\* check (the answers are exhausted), login() returns False: it does not
\* return True and does not establish the account session, whatever the
\* rest of the challenge-page URL is.
C12_ChallengePageFails ==
    [][lpc = "decide" /\ OnChallengePage(url) =>
          /\ loginResult' # "true"
          /\ calls'.baseNav = calls.baseNav]_vars

\* C13: when the URL after the login submission carries the challenge
\* marker and security_answer is None or the empty string, login() returns
\* False; no answer is filled in or submitted and base_url is not visited.
C13_NoAnswerFailsFast ==
    security_answer \in {NoAnswer, <<>>} /\ OnChallengePage(url) =>
        /\ filled = <<>> /\ submitted = <<>>
        /\ calls.baseNav = 0
        /\ lpc \in {"errscan", "detect", "idle"}
        /\ loginResult \in {"none", "false"}
        /\ lpc = "idle" => loginResult = "false"

C13_Witness ==
    /\ security_answer = <<>>
    /\ OnChallengePage(url)
    /\ lpc = "idle" /\ loginResult = "false"
    /\ diags = <<Art("login_page"), Art("after_login")>>

\* ---- the export engine ----

\* C14: on the saved-search path the strategies are entered in the order
\* 1, 2, 3 and a strategy that saves a download ends the call: after
\* strategy 1 returned a file strategies 2 and 3 were not entered, after
\* strategy 2 returned a file strategy 3 was not entered, and a path
\* returned by strategy 3 comes from no download of this call.
C14_FirstSuccessWins ==
    /\ \E n \in 0..3 : strategies = Upto(n)
    /\ exportResult.status # "none" => epc = "idle"
    /\ pc \in {"in_export", "upload"} /\ IsSavedSearch(target) =>
          /\ idx \in produced =>
                /\ epc = "idle"
                /\ exportResult.status = "path"
                /\ strategies \in {<<1>>, <<1, 2>>}
          /\ exportResult.status = "path" /\ idx \notin produced =>
                strategies = <<1, 2, 3>>

C14_Witness ==
    /\ pc = "upload"
    /\ IsSavedSearch(target)
    /\ strategies = <<1, 2>>
    /\ exportResult = Path([stem |-> "report", ext |-> "xlsx"])

\* C15: when strategies 1 and 2 both failed, the call returns the file of
\* download_dir with the greatest creation time among those with extension
\* csv, xlsx or xls, and None when there is none; a file with another
\* extension (the png / html artifacts) is not returned.
C15_LatestTabular ==
    epc = "idle" /\ strategies = <<1, 2, 3>> =>
        LET T == {i \in 1..Len(files) : files[i].ext \in {"csv", "xlsx", "xls"}}
        IN  /\ T = {} => exportResult = Absent
            /\ T # {} =>
                  exportResult = Path(files[CHOOSE i \in T : \A j \in T : j <= i])
            /\ exportResult.file.ext \notin {"png", "html", "txt"}

C15_Witness ==
    /\ epc = "idle" /\ strategies = <<1, 2, 3>>
    /\ exportResult = Path([stem |-> "old", ext |-> "xls"])
    /\ files = <<[stem |-> "results", ext |-> "csv"], [stem |-> "old", ext |-> "xls"],
                 [stem |-> "notes", ext |-> "txt"],
                 [stem |-> "search_page", ext |-> "png"],
                 [stem |-> "search_page", ext |-> "html"]>>

\* C16: when a direct export click of the saved-search path produced a
\* download with suggested filename F, the file is saved in download_dir
\* under the name F, the call returns that path, and the target's outcome
\* carries the path and no error when the download try is left; the
\* ProcessResult appended for the target keeps the path, and its error is
\* absent unless the upload that follows failed.
C16_DirectDownloadPath ==
    /\ [](pc \in {"in_export", "upload"} /\ strategies = <<1>> /\ idx \in produced =>
            /\ received \in SuggestedNames
            /\ epc = "idle"
            /\ exportResult = Path(received)
            /\ Last(files) = received
            /\ pc = "upload" =>
                  /\ result.download_success
                  /\ result.file_path = received
                  /\ result.error = NoError)
    /\ [][pc = "upload" /\ strategies = <<1>> =>
            /\ Len(results') = idx
            /\ results'[idx].report_name = idx
            /\ results'[idx].download_success
            /\ results'[idx].file_path = received
            /\ results'[idx].upload_success <=> results'[idx].error = NoError]_vars

C16_Witness ==
    /\ pc = "upload"
    /\ strategies = <<1>>
    /\ received = [stem |-> "report", ext |-> "xlsx"]
    /\ result.file_path = [stem |-> "report", ext |-> "xlsx"]
    /\ result.error = NoError

\* ---- download_netsuite_reports (SpecDownload, SpecDownloadFair) ----

\* C17: with every awaited operation completing or timing out, the batch
\* terminates and close() has been called; on the way the challenge loop
\* makes at most one iteration per answer, an export makes one pass over its
\* selectors and its strategy chain, login() is called once and
\* export_report once per target.
C17_Terminates ==
    /\ <>(pc = "done" /\ calls.close = 1)
    /\ [](/\ calls.login <= 1
          /\ calls.export <= Len(reports)
          /\ calls.export <= idx
          /\ calls.close <= 1)
    /\ [](lpc # "idle" /\ security_answer # NoAnswer =>
            /\ attempt <= Len(Answers(security_answer)) + 1
            /\ Increasing(filled) /\ Increasing(submitted)
            /\ Len(filled) <= attempt /\ Len(submitted) <= attempt)
    /\ [](/\ \E n \in 0..3 : strategies = Upto(n)
          /\ cand <= Len(ss_export_selectors) + 1)

C17_Witness ==
    /\ pc = "done"
    /\ calls.close = 1
    /\ Len(reports) = 2
    /\ calls.export = 2
    /\ security_answer = <<"r">>
    /\ batch = "returned"

\* C19: download_netsuite_reports yields one outcome per element of
\* report_urls, also when a URL occurs more than once.
C19_OneOutcomePerUrl ==
    batch = "returned" => Cardinality(DOMAIN results) = Len(reports)


\* ---- outcomes of process_reports (Spec) ----

\* C18: in every recorded outcome the error is absent exactly when the
\* download and the upload both succeeded; a failed download has no
\* file_path, an error, and no upload: uploads are attempted only for the
\* reports whose download succeeded, one each.
C18_ErrorIffNotBoth ==
    /\ \A i \in 1..Len(results) :
          /\ results[i].error = NoError <=>
                results[i].download_success /\ results[i].upload_success
          /\ ~results[i].download_success =>
                /\ results[i].file_path = NoFile
                /\ results[i].error # NoError
                /\ ~results[i].upload_success
          /\ results[i].download_success => results[i].file_path # NoFile
    /\ calls.upload = Cardinality({i \in 1..Len(results) : results[i].download_success})

C18_Witness ==
    /\ Len(results) = 2
    /\ ~results[1].download_success
    /\ results[1].error = "Export failed"
    /\ results[2].download_success /\ results[2].upload_success
    /\ results[2].error = NoError
    /\ calls.upload = 1


\* C20: a path returned by export_report names the file received by a
\* download of that very call; it is never a file download_dir already held
\* when the call began.
C20_OwnDownloadOnly ==
    exportResult.status = "path" =>
        /\ idx \in produced
        /\ received # NoFile
        /\ exportResult.file = received


\* ---- the decision of login() (SpecLogin) ----

\* C21: login() returns True exactly when it reaches its success test and
\* the final URL holds neither 'customerlogin' nor 'securityquestions', or
\* holds 'app.netsuite.com' and no 'login'; the call returns False (or
\* fails into False) otherwise, and no other statement returns True.
C21_TrueIffUrlHeuristic ==
    [][/\ lpc = "decide" =>
             (loginResult' = "true" <=>
                 \/ ~url.customerlogin /\ ~url.securityquestions
                 \/ url.app /\ ~url.login)
       /\ lpc = "decide" => loginResult' \in {"true", "false"}
       /\ lpc # "decide" => loginResult' # "true"]_vars

C21_Witness ==
    /\ loginResult = "true"
    /\ url.securityquestions /\ url.app /\ ~url.login
    /\ calls.baseNav = 1


\* ---- the error scan of login() (SpecLogin) ----
FirstTexts == {i \in 1..Len(error_selectors) : error_elements[i] # <<>>
                                               /\ Strip(error_elements[i][1]) # <<>>}
AnyTexts == {i \in 1..Len(error_selectors) :
                \E j \in 1..Len(error_elements[i]) :
                    Strip(error_elements[i][j]) # <<>>}

\* The step of the scan returns False and nothing later of login() is run.
FailsAtScan ==
    /\ loginResult' = "false"
    /\ lpc' = "idle"
    /\ url' = url
    /\ calls' = calls
    /\ filled' = filled /\ submitted' = submitted
    /\ diags' \in {diags, Append(diags, Art("login_error"))}

\* C22 as stated: if any error selector matches an element with non-empty
\* text, login() returns False at the scan, skipping the challenge
\* detection, the loop, the URL check and the base-URL navigation.
C22_AnyElementWithText ==
    [][lpc = "errscan" /\ AnyTexts # {} => FailsAtScan]_vars

\* C22, amended: if the first element matched by some error selector has
\* text other than blanks, login() returns False at the scan, skipping the
\* rest; with no such element and no error raised the scan goes on to the
\* challenge detection.
C22_FirstElementWithText ==
    [][lpc = "errscan" =>
          /\ FirstTexts # {} => FailsAtScan
          /\ FirstTexts = {} => \/ FailsAtScan /\ diags' # diags
                                \/ lpc' = "detect" /\ loginResult' = "none"]_vars

C22_Witness ==
    /\ loginResult = "false"
    /\ calls.formSubmit = 1
    /\ diags = <<Art("login_page"), Art("after_login")>>
    /\ ~OnChallengePage(url) /\ LoginSucceeded(url)


\* ---- the login form (SpecLogin) ----

\* The resolver calls of the login form, by the artifact each requests when
\* it resolves nothing.
FormSites == {<<"email", "fill">>, <<"password", "fill">>, <<"login button", "click">>}

\* C23: when the identifier field, the secret field or the submit control is
\* not resolved, login() has returned False and did nothing after the
\* failed call: no submit click, no wait, no error scan, no challenge
\* handling, no navigation to the base URL.
C23_UnresolvedFormFails ==
    \A site \in FormSites :
        site \in Range(diags) =>
            /\ lpc = "idle"
            /\ loginResult = "false"
            /\ Last(diags) = site
            /\ Art("after_login") \notin Range(diags)
            /\ Art("after_security") \notin Range(diags)
            /\ calls.formSubmit = 0
            /\ calls.baseNav = 0
            /\ filled = <<>> /\ submitted = <<>>
            /\ url = LoginPageUrl
            /\ error_elements = NoElements

C23_Witness ==
    /\ loginResult = "false"
    /\ diags = <<Art("login_page"), <<"password", "fill">>>>
    /\ calls.formSubmit = 0


\* ---- the session after login() (SpecLogin) ----

\* C24: a login() that decides success navigates to the base URL once and
\* returns True, also when that navigation raises; a login() that has not
\* returned True never navigated to the base URL.
C24_BaseUrlOnceOnSuccess ==
    /\ [](loginResult = "true" => calls.baseNav = 1)
    /\ [](loginResult # "true" => calls.baseNav = 0)
    /\ [][lpc = "decide" /\ LoginSucceeded(url) =>
              /\ loginResult' = "true"
              /\ calls'.baseNav = calls.baseNav + 1
              /\ diags' = diags]_vars

\* True although the navigation to the base URL raised.
C24_Witness ==
    /\ loginResult = "true"
    /\ calls.baseNav = 1
    /\ url # BaseUrl


\* ---- the outer handler of login() (SpecLogin) ----

\* C25: login() never raises.  An exception raised anywhere in its body ends
\* the call with False, whether the capture of the "login_error" artifact
\* wrote its files or failed, and also when there is no page, where nothing
\* is navigated to and nothing is written.
C25_LoginNeverRaises ==
    /\ loginResult # "raised"
    /\ lpc = "idle" => loginResult \in {"true", "false"}
    /\ Art("login_error") \in Range(diags) =>
          /\ lpc = "idle"
          /\ loginResult = "false"
          /\ Last(diags) = Art("login_error")
          /\ calls.baseNav = 0
    /\ ~page => /\ loginResult \in {"none", "false"}
                /\ files = <<>>
                /\ calls.gotoLogin = 0

\* False through the handler, with the capture of its artifact failed.
C25_Witness ==
    /\ page
    /\ loginResult = "false"
    /\ Last(diags) = Art("login_error")
    /\ Art("after_login") \in Range(diags)
    /\ [stem |-> "login_error", ext |-> "png"] \notin Range(files)


\* ---- the dispatch of export_report (SpecExport) ----
SavedSearchSteps == {"ss_goto", "ss_direct", "ss_js", "ss_js_wait", "ss_js_failed",
                     "ss_sleep",
                     "ss_scan"}
StandardSteps == {"std_goto", "std_scan", "std_await"}

\* C26: a call of export_report is inside the saved-search method only for
\* a URL holding 'searchresults.nl' or 'searchid=', and inside the
\* standard-report path only for a URL holding neither; the artifacts and
\* strategies of the saved-search method occur for marked URLs only; the
\* URL export_saved_search builds holds a marker for every search id.
C26_OnePathByMarkers ==
    /\ epc \in SavedSearchSteps => target.searchresults_nl \/ target.searchid
    /\ epc \in StandardSteps => ~target.searchresults_nl /\ ~target.searchid
    /\ strategies # <<>> \/ Art("search_page") \in Range(diags) =>
          target.searchresults_nl \/ target.searchid
    /\ \A b \in BaseUrls : \A id \in SearchIds :
          LET u == UrlTests(export_saved_search(b, id))
          IN  /\ u.searchresults_nl \/ u.searchid
              /\ u \in {v \in ReportUrls : v.valid}

\* The saved-search method at work on a URL that holds 'searchid=' only.
C26_Witness ==
    /\ epc = "ss_js"
    /\ target.searchid /\ ~target.searchresults_nl
    /\ strategies = <<1>>


\* ---- strategy 1 of the saved-search method (SpecExport) ----

\* C27 as stated: in strategy 1 at most one direct export control is
\* clicked, and so at most one download wait is spent, before strategy 2.
C27_AtMostOneClick ==
    direct_clicks <= 1

\* C27, amended: strategy 1 passes over the selectors in list order, each
\* once; every present selector is clicked, with one download wait, until a
\* download is received and saved, so the clicks so far never exceed the
\* selectors passed; strategy 2 is entered only after the last selector.
C27_OneClickPerSelector ==
    /\ [](epc = "ss_direct" =>
            /\ cand \in 1..(Len(ss_export_selectors) + 1)
            /\ direct_clicks <= cand - 1
            /\ strategies = IF cand = 1 THEN <<>> ELSE <<1>>)
    /\ [][epc = "ss_direct" /\ epc' = "ss_direct" =>
              /\ cand' = cand + 1
              /\ direct_clicks' \in {direct_clicks, Clicked(direct_clicks)}]_vars
    /\ [][epc = "ss_direct" /\ epc' = "ss_js" =>
              /\ cand = Len(ss_export_selectors) + 1
              /\ direct_clicks' = direct_clicks]_vars
    /\ [][epc = "ss_direct" /\ epc' = "idle" =>
              /\ exportResult'.status = "path"
              /\ received' \in SuggestedNames
              /\ direct_clicks' = Clicked(direct_clicks)]_vars

\* Two selectors clicked without a download, the third about to be tried.
C27_Witness ==
    /\ epc = "ss_direct"
    /\ cand = 3
    /\ direct_clicks = 2


\* ---- the end of the saved-search method (SpecExport) ----
NotFoundRequests == {i \in 1..Len(diags) : diags[i] = Art("export_not_found")}

\* C28: when the three strategies of the saved-search method have run and
\* none gave a file, the call has returned None, without raising, and has
\* requested the "export_not_found" artifact once, as its last action and
\* with no "export_error"; the artifact is never requested twice.
C28_AllFailedIsAbsent ==
    /\ Cardinality(NotFoundRequests) <= 1
    /\ epc = "idle" /\ strategies = <<1, 2, 3>> /\ FindLatest(files) = NoFile =>
          /\ exportResult = Absent
          /\ received = NoFile
          /\ diags = <<Art("search_page"), Art("export_not_found")>>
          /\ Cardinality(NotFoundRequests) = 1

C28_Witness ==
    /\ epc = "idle"
    /\ strategies = <<1, 2, 3>>
    /\ exportResult = Absent
    /\ direct_clicks = 2
    /\ [stem |-> "notes", ext |-> "txt"] \in Range(files)


\* ---- strategy 2 of the saved-search method (SpecExport) ----

\* C29: strategy 2 ends with a saved download or in its handler with the
\* call still open; from the handler the call goes on to strategy 3,
\* through the fixed wait exactly when the error text holds "Download is
\* starting"; strategy 3 is entered from nowhere else.
C29_ScriptFailureGoesOn ==
    /\ [](epc \in {"ss_js_wait", "ss_js_failed", "ss_sleep"} =>
            /\ exportResult = NoExport
            /\ strategies = <<1, 2>>)
    /\ [](epc = "ss_js_failed" <=> js_error # <<>>)
    /\ [][epc = "ss_js" => epc' = "ss_js_wait"]_vars
    /\ [][epc = "ss_js_wait" =>
              \/ epc' = "idle" /\ exportResult'.status = "path" /\ received' # NoFile
              \/ epc' = "ss_js_failed"]_vars
    /\ [][epc = "ss_js_failed" =>
              /\ epc' \in {"ss_sleep", "ss_scan"}
              /\ epc' = "ss_sleep" <=>
                    \E i \in 1..Len(js_error) : js_error[i] = "Download is starting"]_vars
    /\ [][epc = "ss_sleep" => epc' = "ss_scan"]_vars
    /\ [][epc' = "ss_scan" /\ epc # "ss_scan" =>
              epc \in {"ss_js_failed", "ss_sleep"}]_vars

C29_Witness ==
    /\ epc = "ss_sleep"
    /\ strategies = <<1, 2>>
    /\ exportResult = NoExport


\* C30: the address strategy 2 sends the page to targets searchresults.xls
\* and carries the export parameters with the row cap size=1000, for every
\* results address the saved-search method can be on.
C30_ExportUrlComplete ==
    epc = "ss_js_wait" =>
        /\ \E i \in 1..Len(xls_url) : xls_url[i] = "searchresults.xls"
        /\ \A i \in 1..Len(xls_url) : xls_url[i] # "searchresults.nl"
        /\ \E i \in 1..Len(xls_url) : xls_url[i] = "csv="
        /\ \E i \in 1..Len(xls_url) : xls_url[i] = "size=1000"


\* ---- the menu fallback of the standard-report path (SpecExport) ----

\* C31: on the standard-report path the menu + 'Excel' fallback is entered
\* only after the last export selector with nothing clicked, and is left
\* for good: either it clicked and the download wait begins, or the call
\* returns None with the "export_not_found" artifact as its last request;
\* a download is awaited only after a click, and the scan is never resumed.
C31_MenuFallbackOnce ==
    /\ [](epc = "std_await" => export_clicked)
    /\ [](epc = "std_scan" => ~export_clicked)
    /\ [][epc = "std_scan" /\ cand > Len(std_export_selectors) =>
              \/ epc' = "std_await" /\ export_clicked' /\ diags' = diags
              \/ /\ epc' = "idle"
                 /\ exportResult' = Absent
                 /\ diags' = Append(diags, Art("export_not_found"))
                 /\ received' = NoFile
                 /\ produced' = produced]_vars
    /\ [][epc = "std_await" => epc' \in {"std_await", "idle"}]_vars
    /\ [][epc = "std_scan" /\ epc' = "std_scan" =>
              cand <= Len(std_export_selectors) /\ cand' = cand + 1]_vars

\* The fallback failed after six selectors: None, one "export_not_found".
C31_Witness ==
    /\ epc = "idle"
    /\ ~IsSavedSearch(target)
    /\ exportResult = Absent
    /\ diags = <<Art("export_not_found")>>
    /\ received = NoFile


\* ---- the download wait of the standard-report path (SpecExport) ----

\* C32: on the standard-report path a download started by the click on the
\* export control is never announced before the download wait is entered,
\* and the call that clicked it returns a path.
C32_ClickDownloadObserved ==
    /\ [](epc = "std_await" => click_download # "early")
    /\ [][epc = "std_await" /\ click_download # "none" /\ epc' = "idle" =>
              exportResult'.status = "path"]_vars


\* ---- the order of the browser operations of a batch (Spec) ----

\* C33: in a batch the browser operations come one after the other:
\* login() runs after start_browser and before every export, export_report
\* runs only after login() returned True and while nothing is closed, a new
\* export starts only when none is in progress and for a report later in
\* the list than every report exported so far, and after close() no
\* operation is invoked and neither the page nor download_dir changes.
C33_BrowserOperationsInOrder ==
    /\ [](lpc # "idle" =>
            /\ pc = "in_login" /\ epc = "idle"
            /\ calls.start = 1 /\ calls.login = 1
            /\ calls.export = 0 /\ calls.close = 0
            /\ browser = "open" /\ page)
    /\ [](epc # "idle" =>
            /\ pc = "in_export" /\ lpc = "idle"
            /\ loginResult = "true"
            /\ calls.start = 1 /\ calls.login = 1 /\ calls.close = 0
            /\ idx \in 1..Len(reports)
            /\ calls.export <= idx
            /\ browser = "open" /\ page)
    /\ [](calls.close <= 1 /\ calls.start <= 1)
    /\ [](calls.close = 1 => pc = "done" /\ lpc = "idle" /\ epc = "idle")
    /\ [][calls.close = 1 =>
              calls' = calls /\ url' = url /\ files' = files]_vars
    /\ [][calls'.export # calls.export =>
              /\ calls'.export = calls.export + 1
              /\ epc = "idle" /\ epc' = "dispatch"
              /\ loginResult = "true"
              /\ idx' = idx
              /\ calls.export < idx]_vars
    /\ [][idx' # idx => epc' = "idle" /\ (idx' = idx + 1 \/ calls.export = 0)]_vars
    /\ [][calls'.login # calls.login =>
              calls.start = 1 /\ calls.login = 0 /\ calls.export = 0]_vars
    /\ [][calls'.close # calls.close =>
              lpc = "idle" /\ epc = "idle" /\ calls.start = 1]_vars

\* A closed batch of three reports: the second is a None URL, the first and
\* the third were exported in turn.
C33_Witness ==
    /\ pc = "done"
    /\ calls = [NoCalls EXCEPT !.start = 1, !.login = 1, !.gotoLogin = 1,
                               !.formSubmit = 1, !.baseNav = 1, !.export = 2,
                               !.close = 1, !.upload = 1]
    /\ Len(results) = 3
    /\ results[2].error = "TypeError"
    /\ results[3].download_success


\* ---- the failure artifacts of login() (SpecLogin) ----

\* The artifacts login() requests on its way, whatever the outcome.
ProgressArtifacts == {Art("login_page"), Art("after_login"), Art("after_security")}

\* C34 as stated: every return of False requests an artifact in the step
\* that returns, after the failure was found.
C34_ArtifactAtEveryFailure ==
    [][loginResult = "none" /\ loginResult' = "false" =>
          /\ Len(diags') = Len(diags) + 1
          /\ Last(diags') \notin ProgressArtifacts]_vars

\* C34, amended: a return of False requests a failure artifact after the
\* failure was found on every path but two: an error text found by the
\* error scan, and a challenge page with no answer configured.  These
\* return at once, and the last artifact is "after_login", requested before
\* the failure was looked for, with no page operation in between.
C34_ArtifactExceptEarlyReturns ==
    [][loginResult = "none" /\ loginResult' = "false" =>
          \/ /\ Len(diags') = Len(diags) + 1
             /\ Last(diags') \notin ProgressArtifacts
          \/ /\ diags' = diags
             /\ diags # <<>>
             /\ Last(diags) = Art("after_login")
             /\ url' = url
             /\ \/ lpc = "errscan" /\ ErrorScanFrom(error_elements, 1)
                \/ /\ lpc = "detect"
                   /\ OnChallengePage(url)
                   /\ NoAnswerConfigured(security_answer)]_vars

\* False returned from the challenge page with no answer configured: the
\* last artifact is "after_login".
C34_Witness ==
    /\ lpc = "idle"
    /\ loginResult = "false"
    /\ OnChallengePage(url)
    /\ NoAnswerConfigured(security_answer)
    /\ diags = <<Art("login_page"), Art("after_login")>>


\* ---- two batches at the same time (SpecTwoBatches) ----

\* C35: a batch started by process_reports never returns a file the other
\* batch saved: a path returned by a call that received no download of its
\* own, on a download_dir that was empty, is not a file of the other batch.
C35_NoFileOfOtherBatch ==
    exportResult.status = "path" /\ received = NoFile =>
        exportResult.file \notin other_batch.saved


\* ---- the paths of one batch (SpecDownload) ----

\* C36: in download_netsuite_reports a download is never saved over the
\* file at a path already in `results`, and two report URLs whose exports
\* both received and saved a download are returned with different paths.
C36_EarlierFileKept ==
    /\ [][received' # received /\ received' # NoFile =>
              \A u \in DOMAIN results : results[u] # received']_vars
    /\ [](/\ batch = "returned"
          /\ Len(reports) = 2
          /\ produced = {1, 2}
          /\ reports[1].netsuite_url # reports[2].netsuite_url
          => results[reports[1].netsuite_url] # results[reports[2].netsuite_url])


\* ---- the answers tried on the challenge page (SpecLogin) ----

\* C37: every answer filled into the challenge field is a non-empty string.
C37_NoBlankAnswerFilled ==
    \A i \in 1..Len(filled) : Answers(security_answer)[filled[i]] # <<>>


\* ---- the sync-status cell of a report (Spec) ----

\* C38: when the outcome of a report is appended, its sync-status cell is
\* not left at "sync in progress", the status written at the start of the
\* report.
C38_NotLeftInProgress ==
    [][Len(results') = Len(results) + 1 => sync_cell' # SyncInProgress]_vars


\* ---- the names of the configured reports (SpecConfig) ----

\* C39: from a list with unique names, the names of manager.reports stay
\* unique through every add_report, remove_report, update_report,
\* enable_report and disable_report call; add_report with a name the list
\* holds returns False and leaves the list as it was; no call changes the
\* name of a report it keeps.
C39_NamesStayUnique ==
    /\ [](UniqueNames(manager.reports))
    /\ [][manager'.op = "add_report" /\ HasName(manager.reports, manager'.arg) =>
              manager'.returned = "False" /\ manager'.reports = manager.reports]_vars
    /\ [][manager'.op \in {"update_report", "enable_report", "disable_report"} =>
              /\ Len(manager'.reports) = Len(manager.reports)
              /\ \A i \in 1..Len(manager.reports) :
                    manager'.reports[i].name = manager.reports[i].name]_vars

\* A duplicate was refused on a list of three reports, one of them disabled.
C39_Witness ==
    /\ manager.op = "add_report"
    /\ manager.returned = "False"
    /\ Len(manager.reports) = 3
    /\ \E i \in 1..3 : ~manager.reports[i].enabled

====
